---- MODULE Spec2Model ----
(***************************************************************************)
(* EmbraceDB: the B+tree index (src/indexing), the write-ahead log         *)
(* (src/storage/wal.cpp), the snapshotter (storage/snapshot.cpp) and the   *)
(* engine facade that binds them (Btree::put/update/remove/recover/...).   *)
(*                                                                         *)
(* Keys and values are byte strings (sequences of 0..255); node pointers   *)
(* are positive integers into the heap `nodes`, 0 is nullptr.              *)
(***************************************************************************)
EXTENDS Integers, Sequences, FiniteSets, TLC

\* ---------------------------------------------------------------- bounds
NumKeys == 2            \* keys <<1>> .. <<NumKeys>> offered to the WAL-backed engine
NumVals == 2            \* values <<1>> .. <<NumVals>>
NumTreeKeys == 14       \* keys offered to the engine without a WAL path
NumTwoValKeys == 1      \* of these, the keys that are also written with a second value
MaxTreeOps == 2         \* calls made on the engine without a WAL path
MaxPartial == 1         \* bytes a failing or interrupted write(2) may have stored
MaxInterval == 1        \* largest checkpoint interval set by the caller
MaxOps == 4             \* calls per behaviour on the WAL-backed engine
MaxFaults == 1          \* injected I/O failures per behaviour
MaxCrashes == 1         \* process crashes per behaviour
\* WalWriter::BUFFER_SIZE is 4096 (wal.hpp:49).  A modelled record is 14 or
\* 15 bytes, so the buffer is scaled to hold two of them: the third append
\* triggers the flush of write_record (wal.cpp:81).
BUFFER_SIZE == 32
\* core::MAX_KEY_SIZE is 128 and core::MAX_VALUE_SIZE is 1024 (common.hpp).
\* The code only compares lengths with them, so they are scaled with the keys
\* and values: a key of MAX_KEY_SIZE bytes is the longest accepted one.
MAX_KEY_SIZE == 2
MAX_VALUE_SIZE == 3
MaxSizedOps == 2        \* puts of keys and values of chosen sizes
MaxRecords == 3         \* records given to a WalWriter driven directly
MaxAutoInterval == 2    \* largest checkpoint interval of the automatic checkpoints
DamageStride == 3       \* one byte in DamageStride of a WAL is damaged

\* ------------------------------------------------------- program constants
NULL == 0
max_degree_ == 4

get_min_keys == (max_degree_ + 1) \div 2

\* -------------------------------------------------------- sequence helpers
InsertAt(s, i, x) == SubSeq(s, 1, i - 1) \o <<x>> \o SubSeq(s, i, Len(s))
RemoveAt(s, i) == SubSeq(s, 1, i - 1) \o SubSeq(s, i + 1, Len(s))
SetAt(s, i, x) == [s EXCEPT ![i] = x]
Front(s) == SubSeq(s, 1, Len(s) - 1)
Min2(a, b) == IF a < b THEN a ELSE b

\* std::string operator< : lexicographic, bytes compared as unsigned
RECURSIVE KeyLess(_, _)
KeyLess(a, b) ==
    IF b = <<>> THEN FALSE
    ELSE IF a = <<>> THEN TRUE
    ELSE IF a[1] < b[1] THEN TRUE
    ELSE IF b[1] < a[1] THEN FALSE
    ELSE KeyLess(Tail(a), Tail(b))

\* std::upper_bound over keys[first .. first+len-1] (0-based), by bisection
RECURSIVE UpperBoundFrom(_, _, _, _)
UpperBoundFrom(keys, key, first, len) ==
    IF len <= 0 THEN first
    ELSE LET half == len \div 2
             middle == first + half
         IN IF KeyLess(key, keys[middle + 1])
            THEN UpperBoundFrom(keys, key, first, half)
            ELSE UpperBoundFrom(keys, key, middle + 1, len - half - 1)

upper_bound(keys, key) == UpperBoundFrom(keys, key, 0, Len(keys))

\* std::lower_bound, by bisection
RECURSIVE LowerBoundFrom(_, _, _, _)
LowerBoundFrom(keys, key, first, len) ==
    IF len <= 0 THEN first
    ELSE LET half == len \div 2
             middle == first + half
         IN IF KeyLess(keys[middle + 1], key)
            THEN LowerBoundFrom(keys, key, middle + 1, len - half - 1)
            ELSE LowerBoundFrom(keys, key, first, half)

lower_bound(keys, key) == LowerBoundFrom(keys, key, 0, Len(keys))

\* ------------------------------------------------------------------ nodes
LeafNode ==
    [type |-> "Leaf", parent |-> NULL, keys |-> <<>>, values |-> <<>>,
     children |-> <<>>, next |-> NULL, prev |-> NULL]

InternalNode ==
    [type |-> "Internal", parent |-> NULL, keys |-> <<>>, values |-> <<>>,
     children |-> <<>>, next |-> NULL, prev |-> NULL]

\* std::make_unique: the smallest pointer value not in use
NewId(nodes) == CHOOSE i \in 1..(Cardinality(DOMAIN nodes) + 1) :
                    /\ i \notin DOMAIN nodes
                    /\ \A j \in 1..(i - 1) : j \in DOMAIN nodes

\* the heap with a newly made node
AddNode(nodes, id, node) ==
    [n \in (DOMAIN nodes) \cup {id} |-> IF n = id THEN node ELSE nodes[n]]

\* destruction of the unique_ptr that owned node id
FreeNode(nodes, id) == [n \in (DOMAIN nodes) \ {id} |-> nodes[n]]

\* A tree T is [root |-> pointer, nodes |-> heap].
EmptyTree == [root |-> 1, nodes |-> <<LeafNode>>]

\* LeafNode::get_index, -1 when the key is absent
get_index(leaf, key) ==
    LET it == lower_bound(leaf.keys, key)
    IN IF it < Len(leaf.keys) /\ leaf.keys[it + 1] = key THEN it ELSE -1

\* an insert that puts the pair at the end of the leaf
leaf_insert_back(leaf, key, val) ==
    [leaf EXCEPT !.keys = Append(leaf.keys, key),
                 !.values = Append(leaf.values, val)]

\* LeafNode::insert
leaf_insert(leaf, key, val) ==
    LET idx == lower_bound(leaf.keys, key)
    IN [leaf EXCEPT !.keys = InsertAt(leaf.keys, idx + 1, key),
                    !.values = InsertAt(leaf.values, idx + 1, val)]

RECURSIVE FindLeafFrom(_, _, _)
FindLeafFrom(T, current, key) ==
    IF T.nodes[current].type = "Leaf" THEN current
    ELSE LET internal == T.nodes[current]
             idx == upper_bound(internal.keys, key)
         IN FindLeafFrom(T, internal.children[idx + 1], key)

find_leaf(T, key) == FindLeafFrom(T, T.root, key)

\* std::nullopt: no byte string
nullopt == <<-1>>

\* Btree::get
get(T, key) ==
    LET leaf == T.nodes[find_leaf(T, key)]
        idx == get_index(leaf, key)
    IN IF idx # -1 THEN leaf.values[idx + 1] ELSE nullopt

\* ----------------------------------------------------------------- splits
RECURSIVE insert_into_parent(_, _, _, _), split_internal(_, _)

insert_into_parent(T, old_child, key, new_child) ==
    IF old_child = T.root
    THEN LET nr == NewId(T.nodes)
             new_root == [InternalNode EXCEPT !.keys = <<key>>,
                                              !.children = <<T.root, new_child>>]
         IN [root |-> nr,
             nodes |-> AddNode([T.nodes EXCEPT ![T.root].parent = nr,
                                               ![new_child].parent = nr],
                               nr, new_root)]
    ELSE LET parent == T.nodes[old_child].parent
             P == T.nodes[parent]
             idx == upper_bound(P.keys, key)
             T1 == [T EXCEPT !.nodes =
                      [T.nodes EXCEPT
                         ![parent].keys = InsertAt(P.keys, idx + 1, key),
                         ![parent].children = InsertAt(P.children, idx + 2, new_child),
                         ![new_child].parent = parent]]
         IN IF Len(T1.nodes[parent].keys) >= max_degree_
            THEN split_internal(T1, parent)
            ELSE T1

\* a split that leaves the parent pointers of the moved children as they were
split_internal_orphans(T, node) ==
    LET N == T.nodes[node]
        split_idx == (max_degree_ + 1) \div 2
        new == NewId(T.nodes)
        new_sibling == [InternalNode EXCEPT
                          !.keys = SubSeq(N.keys, split_idx + 2, Len(N.keys)),
                          !.children = SubSeq(N.children, split_idx + 2,
                                              Len(N.children)),
                          !.parent = N.parent]
        nodes1 == AddNode(
                    [T.nodes EXCEPT
                       ![node].keys = SubSeq(N.keys, 1, split_idx),
                       ![node].children = SubSeq(N.children, 1, split_idx + 1)],
                    new, new_sibling)
    IN insert_into_parent([T EXCEPT !.nodes = nodes1], node,
                          N.keys[split_idx + 1], new)

split_internal(T, node) ==
    LET N == T.nodes[node]
        split_idx == (max_degree_ + 1) \div 2
        promote_key == N.keys[split_idx + 1]
        new == NewId(T.nodes)
        moved == SubSeq(N.children, split_idx + 2, Len(N.children))
        new_sibling == [InternalNode EXCEPT
                          !.keys = SubSeq(N.keys, split_idx + 2, Len(N.keys)),
                          !.children = moved,
                          !.parent = N.parent]
        movedSet == {moved[i] : i \in 1..Len(moved)}
        nodes1 == AddNode(
                    [n \in DOMAIN T.nodes |->
                       IF n \in movedSet THEN [T.nodes[n] EXCEPT !.parent = new]
                       ELSE IF n = node
                            THEN [N EXCEPT !.keys = SubSeq(N.keys, 1, split_idx),
                                           !.children = SubSeq(N.children, 1, split_idx + 1)]
                            ELSE T.nodes[n]],
                    new, new_sibling)
    IN insert_into_parent([T EXCEPT !.nodes = nodes1], node, promote_key, new)

\* a split one key further to the right
split_leaf_late(T, leaf) ==
    LET L == T.nodes[leaf]
        split_idx == (max_degree_ + 2) \div 2
        new == NewId(T.nodes)
        new_leaf == [LeafNode EXCEPT
                       !.keys = SubSeq(L.keys, split_idx + 1, Len(L.keys)),
                       !.values = SubSeq(L.values, split_idx + 1, Len(L.values)),
                       !.next = L.next,
                       !.parent = L.parent]
        nodes1 == AddNode(
                    [T.nodes EXCEPT ![leaf].keys = SubSeq(L.keys, 1, split_idx),
                                    ![leaf].values = SubSeq(L.values, 1, split_idx),
                                    ![leaf].next = new],
                    new, new_leaf)
    IN insert_into_parent([T EXCEPT !.nodes = nodes1], leaf, new_leaf.keys[1], new)

\* a split whose new leaf is not given the old leaf's successor
split_leaf_unlinked(T, leaf) ==
    LET L == T.nodes[leaf]
        split_idx == (max_degree_ + 1) \div 2
        new == NewId(T.nodes)
        new_leaf == [LeafNode EXCEPT
                       !.keys = SubSeq(L.keys, split_idx + 1, Len(L.keys)),
                       !.values = SubSeq(L.values, split_idx + 1, Len(L.values)),
                       !.parent = L.parent]
        nodes1 == AddNode(
                    [T.nodes EXCEPT ![leaf].keys = SubSeq(L.keys, 1, split_idx),
                                    ![leaf].values = SubSeq(L.values, 1, split_idx),
                                    ![leaf].next = new],
                    new, new_leaf)
    IN insert_into_parent([T EXCEPT !.nodes = nodes1], leaf, new_leaf.keys[1], new)

split_leaf(T, leaf) ==
    LET L == T.nodes[leaf]
        split_idx == (max_degree_ + 1) \div 2
        new == NewId(T.nodes)
        new_leaf == [LeafNode EXCEPT
                       !.keys = SubSeq(L.keys, split_idx + 1, Len(L.keys)),
                       !.values = SubSeq(L.values, split_idx + 1, Len(L.values)),
                       !.next = L.next,
                       !.parent = L.parent]
        nodes1 == AddNode(
                    [T.nodes EXCEPT ![leaf].keys = SubSeq(L.keys, 1, split_idx),
                                    ![leaf].values = SubSeq(L.values, 1, split_idx),
                                    ![leaf].next = new],
                    new, new_leaf)
        promote_key == new_leaf.keys[1]
    IN insert_into_parent([T EXCEPT !.nodes = nodes1], leaf, promote_key, new)

\* ------------------------------------------------------------ rebalancing
\* the loop that looks a child up in parent->children (0-based, 0 if absent)
child_index(children, node) ==
    LET hits == {i \in 1..Len(children) : children[i] = node}
    IN IF hits = {} THEN 0
       ELSE (CHOOSE i \in hits : \A j \in hits : i <= j) - 1

borrow_from_left(T, node, left_sibling, parent, parent_key_idx) ==
    LET N == T.nodes[node]
        L == T.nodes[left_sibling]
        P == T.nodes[parent]
        nkeys == <<L.keys[Len(L.keys)]>> \o N.keys
    IN [T EXCEPT !.nodes =
          [T.nodes EXCEPT
             ![node].keys = nkeys,
             ![node].values = <<L.values[Len(L.values)]>> \o N.values,
             ![left_sibling].keys = Front(L.keys),
             ![left_sibling].values = Front(L.values),
             ![parent].keys = SetAt(P.keys, parent_key_idx + 1, nkeys[1])]]

\* a borrow that leaves the separator in the parent as it was
borrow_from_right_stale(T, node, right_sibling, parent, parent_key_idx) ==
    LET N == T.nodes[node]
        R == T.nodes[right_sibling]
    IN [T EXCEPT !.nodes =
          [T.nodes EXCEPT
             ![node].keys = Append(N.keys, R.keys[1]),
             ![node].values = Append(N.values, R.values[1]),
             ![right_sibling].keys = Tail(R.keys),
             ![right_sibling].values = Tail(R.values)]]

borrow_from_right(T, node, right_sibling, parent, parent_key_idx) ==
    LET N == T.nodes[node]
        R == T.nodes[right_sibling]
        P == T.nodes[parent]
        rkeys == Tail(R.keys)
    IN [T EXCEPT !.nodes =
          [T.nodes EXCEPT
             ![node].keys = Append(N.keys, R.keys[1]),
             ![node].values = Append(N.values, R.values[1]),
             ![right_sibling].keys = rkeys,
             ![right_sibling].values = Tail(R.values),
             ![parent].keys = SetAt(P.keys, parent_key_idx + 1, rkeys[1])]]

RECURSIVE rebalance_after_delete(_, _), handle_underflow_internal(_, _),
          merge_with_left(_, _, _, _, _), merge_with_right(_, _, _, _, _)

merge_with_left(T, node, left_sibling, parent, parent_key_idx) ==
    LET N == T.nodes[node]
        L == T.nodes[left_sibling]
        P == T.nodes[parent]
        erased == P.children[parent_key_idx + 2]
        nodes1 == [T.nodes EXCEPT
                     ![left_sibling].keys = L.keys \o N.keys,
                     ![left_sibling].values = L.values \o N.values,
                     ![left_sibling].next = N.next]
        nodes2 == IF N.next # NULL
                  THEN [nodes1 EXCEPT ![N.next].prev = left_sibling]
                  ELSE nodes1
        nodes3 == [nodes2 EXCEPT
                     ![parent].keys = RemoveAt(P.keys, parent_key_idx + 1),
                     ![parent].children = RemoveAt(P.children, parent_key_idx + 2)]
        T1 == [T EXCEPT !.nodes = FreeNode(nodes3, erased)]
    IN IF parent # T.root /\ Len(T1.nodes[parent].keys) < get_min_keys
       THEN rebalance_after_delete(T1, parent)
       ELSE T1

merge_with_right(T, node, right_sibling, parent, parent_key_idx) ==
    LET N == T.nodes[node]
        R == T.nodes[right_sibling]
        P == T.nodes[parent]
        erased == P.children[parent_key_idx + 2]
        nodes1 == [T.nodes EXCEPT
                     ![node].keys = N.keys \o R.keys,
                     ![node].values = N.values \o R.values,
                     ![node].next = R.next]
        nodes2 == IF R.next # NULL
                  THEN [nodes1 EXCEPT ![R.next].prev = node]
                  ELSE nodes1
        nodes3 == [nodes2 EXCEPT
                     ![parent].keys = RemoveAt(P.keys, parent_key_idx + 1),
                     ![parent].children = RemoveAt(P.children, parent_key_idx + 2)]
        T1 == [T EXCEPT !.nodes = FreeNode(nodes3, erased)]
    IN IF parent # T.root /\ Len(T1.nodes[parent].keys) < get_min_keys
       THEN rebalance_after_delete(T1, parent)
       ELSE T1

\* children whose parent pointer is redirected to `to`
Reparent(nodes, kids, to) ==
    [n \in DOMAIN nodes |->
       IF \E i \in 1..Len(kids) : kids[i] = n
       THEN [nodes[n] EXCEPT !.parent = to] ELSE nodes[n]]

\* an underflow handled as the empty root is: the node gives way to its
\* first child
handle_underflow_internal_collapse(T, node) ==
    IF node = T.root THEN T
    ELSE LET N == T.nodes[node]
             P == T.nodes[N.parent]
             node_idx == child_index(P.children, node)
         IN [T EXCEPT !.nodes =
               FreeNode([T.nodes EXCEPT
                           ![N.parent].children =
                               SetAt(P.children, node_idx + 1, N.children[1]),
                           ![N.children[1]].parent = N.parent],
                        node)]

handle_underflow_internal(T, node) ==
    IF node = T.root THEN T
    ELSE
    LET N == T.nodes[node]
        parent == N.parent
        P == T.nodes[parent]
        node_idx == child_index(P.children, node)
        hasRight == node_idx + 1 < Len(P.children)
        hasLeft == node_idx > 0
        right_sib == P.children[node_idx + 2]
        left_sib == P.children[node_idx]
    IN
    IF hasRight /\ Len(T.nodes[right_sib].keys) > get_min_keys
    THEN LET R == T.nodes[right_sib]
         IN [T EXCEPT !.nodes =
               [Reparent(T.nodes, <<R.children[1]>>, node) EXCEPT
                  ![node].keys = Append(N.keys, P.keys[node_idx + 1]),
                  ![node].children = Append(N.children, R.children[1]),
                  ![parent].keys = SetAt(P.keys, node_idx + 1, R.keys[1]),
                  ![right_sib].keys = Tail(R.keys),
                  ![right_sib].children = Tail(R.children)]]
    ELSE IF hasLeft /\ Len(T.nodes[left_sib].keys) > get_min_keys
    THEN LET L == T.nodes[left_sib]
             last == L.children[Len(L.children)]
         IN [T EXCEPT !.nodes =
               [Reparent(T.nodes, <<last>>, node) EXCEPT
                  ![node].keys = <<P.keys[node_idx]>> \o N.keys,
                  ![node].children = <<last>> \o N.children,
                  ![parent].keys = SetAt(P.keys, node_idx, L.keys[Len(L.keys)]),
                  ![left_sib].keys = Front(L.keys),
                  ![left_sib].children = Front(L.children)]]
    ELSE IF hasLeft
    THEN LET L == T.nodes[left_sib]
             nodes1 == [Reparent(T.nodes, N.children, left_sib) EXCEPT
                          ![left_sib].keys = Append(L.keys, P.keys[node_idx]) \o N.keys,
                          ![left_sib].children = L.children \o N.children,
                          ![parent].keys = RemoveAt(P.keys, node_idx),
                          ![parent].children = RemoveAt(P.children, node_idx + 1)]
             T1 == [T EXCEPT !.nodes = FreeNode(nodes1, P.children[node_idx + 1])]
         IN IF parent # T.root /\ Len(T1.nodes[parent].keys) < get_min_keys
            THEN rebalance_after_delete(T1, parent)
            ELSE T1
    ELSE LET R == T.nodes[right_sib]
             nodes1 == [Reparent(T.nodes, R.children, node) EXCEPT
                          ![node].keys = Append(N.keys, P.keys[node_idx + 1]) \o R.keys,
                          ![node].children = N.children \o R.children,
                          ![parent].keys = RemoveAt(P.keys, node_idx + 1),
                          ![parent].children = RemoveAt(P.children, node_idx + 2)]
             T1 == [T EXCEPT !.nodes = FreeNode(nodes1, P.children[node_idx + 2])]
         IN IF parent # T.root /\ Len(T1.nodes[parent].keys) < get_min_keys
            THEN rebalance_after_delete(T1, parent)
            ELSE T1

\* a leaf rebalancing that borrows from a sibling holding just min_keys keys
rebalance_after_delete_eager(T, node) ==
    IF node = T.root THEN T
    ELSE IF T.nodes[node].type # "Leaf" THEN handle_underflow_internal(T, node)
    ELSE
    LET parent == T.nodes[node].parent
        P == T.nodes[parent]
        leaf_idx == child_index(P.children, node)
        hasRight == leaf_idx + 1 < Len(P.children)
        hasLeft == leaf_idx > 0
        right_sibling == P.children[leaf_idx + 2]
        left_sibling == P.children[leaf_idx]
    IN
    IF hasRight /\ Len(T.nodes[right_sibling].keys) >= get_min_keys
    THEN borrow_from_right(T, node, right_sibling, parent, leaf_idx)
    ELSE IF hasLeft /\ Len(T.nodes[left_sibling].keys) >= get_min_keys
    THEN borrow_from_left(T, node, left_sibling, parent, leaf_idx - 1)
    ELSE IF hasLeft
    THEN merge_with_left(T, node, left_sibling, parent, leaf_idx - 1)
    ELSE merge_with_right(T, node, right_sibling, parent, leaf_idx)

\* a leaf rebalancing that asks the left sibling before the right one
rebalance_after_delete_left_first(T, node) ==
    IF node = T.root THEN T
    ELSE IF T.nodes[node].type # "Leaf" THEN handle_underflow_internal(T, node)
    ELSE
    LET parent == T.nodes[node].parent
        P == T.nodes[parent]
        leaf_idx == child_index(P.children, node)
        hasRight == leaf_idx + 1 < Len(P.children)
        hasLeft == leaf_idx > 0
        right_sibling == P.children[leaf_idx + 2]
        left_sibling == P.children[leaf_idx]
    IN
    IF hasLeft /\ Len(T.nodes[left_sibling].keys) > get_min_keys
    THEN borrow_from_left(T, node, left_sibling, parent, leaf_idx - 1)
    ELSE IF hasRight /\ Len(T.nodes[right_sibling].keys) > get_min_keys
    THEN borrow_from_right(T, node, right_sibling, parent, leaf_idx)
    ELSE IF hasLeft
    THEN merge_with_left(T, node, left_sibling, parent, leaf_idx - 1)
    ELSE merge_with_right(T, node, right_sibling, parent, leaf_idx)

rebalance_after_delete(T, node) ==
    IF node = T.root THEN T
    ELSE IF T.nodes[node].type # "Leaf" THEN handle_underflow_internal(T, node)
    ELSE
    LET parent == T.nodes[node].parent
        P == T.nodes[parent]
        leaf_idx == child_index(P.children, node)
        hasRight == leaf_idx + 1 < Len(P.children)
        hasLeft == leaf_idx > 0
        right_sibling == P.children[leaf_idx + 2]
        left_sibling == P.children[leaf_idx]
    IN
    IF hasRight /\ Len(T.nodes[right_sibling].keys) > get_min_keys
    THEN borrow_from_right(T, node, right_sibling, parent, leaf_idx)
    ELSE IF hasLeft /\ Len(T.nodes[left_sibling].keys) > get_min_keys
    THEN borrow_from_left(T, node, left_sibling, parent, leaf_idx - 1)
    ELSE IF hasLeft
    THEN merge_with_left(T, node, left_sibling, parent, leaf_idx - 1)
    ELSE merge_with_right(T, node, right_sibling, parent, leaf_idx)

\* ------------------------------------------------- pointer normalisation
\* Pointer values carry no meaning beyond identity: after every public call
\* the heap is renumbered in preorder from the root.  A pointer to a node that
\* was freed is kept as DANGLING.
DANGLING == -1

RECURSIVE PreorderSeq(_, _), PreorderKids(_, _)
PreorderSeq(T, id) == <<id>> \o PreorderKids(T, T.nodes[id].children)
PreorderKids(T, kids) ==
    IF kids = <<>> THEN <<>>
    ELSE PreorderSeq(T, kids[1]) \o PreorderKids(T, Tail(kids))

Canon(T) ==
    LET order == PreorderSeq(T, T.root)
        ren(p) == IF p = NULL THEN NULL
                  ELSE IF \E i \in 1..Len(order) : order[i] = p
                       THEN CHOOSE i \in 1..Len(order) : order[i] = p
                       ELSE DANGLING
    IN [root |-> 1,
        nodes |-> [i \in 1..Len(order) |->
                     LET n == T.nodes[order[i]]
                     IN [n EXCEPT !.parent = ren(n.parent),
                                  !.next = ren(n.next),
                                  !.prev = ren(n.prev),
                                  !.children = [c \in 1..Len(n.children) |->
                                                   ren(n.children[c])]]]]

\* ------------------------------------------------ tree part of the calls
\* Btree::put, lines 84-96: TRUE in `fresh` when a new key was inserted
tree_put(T, key, value) ==
    LET leaf == find_leaf(T, key)
        idx == get_index(T.nodes[leaf], key)
    IN IF idx # -1
       THEN [tree |-> [T EXCEPT !.nodes[leaf].values[idx + 1] = value],
             fresh |-> FALSE]
       ELSE LET T1 == [T EXCEPT !.nodes[leaf] = leaf_insert(T.nodes[leaf], key, value)]
            IN [tree |-> IF Len(T1.nodes[leaf].keys) >= max_degree_
                         THEN split_leaf(T1, leaf) ELSE T1,
                fresh |-> TRUE]

\* a store that is lost
tree_update_lost(T, leaf, idx, value) ==
    T

\* Btree::update, line 127
tree_update(T, leaf, idx, value) ==
    [T EXCEPT !.nodes[leaf].values[idx + 1] = value]

\* a remove that leaves the root as the rebalancing left it
shrink_root_never(T2) ==
    LET R == T2.nodes[T2.root]
    IN [tree |-> T2, emptied |-> R.type = "Leaf" /\ R.keys = <<>>]

\* Btree::remove, lines 160-174, on the tree T2 the erase and the rebalancing
\* left: `emptied` is the early return of line 164
shrink_root(T2) ==
    LET R == T2.nodes[T2.root]
    IN IF R.type = "Leaf" /\ R.keys = <<>>
       THEN [tree |-> T2, emptied |-> TRUE]
       ELSE IF R.type # "Leaf" /\ R.keys = <<>> /\ Len(R.children) = 1
            THEN [tree |-> [root |-> R.children[1],
                            nodes |-> FreeNode([T2.nodes EXCEPT
                                                  ![R.children[1]].parent = NULL],
                                               T2.root)],
                  emptied |-> FALSE]
            ELSE [tree |-> T2, emptied |-> FALSE]

\* Btree::remove, lines 154-174
tree_remove(T, leaf, idx) ==
    LET T1 == [T EXCEPT !.nodes[leaf].keys = RemoveAt(@, idx + 1),
                        !.nodes[leaf].values = RemoveAt(@, idx + 1)]
    IN shrink_root(IF leaf # T1.root /\ Len(T1.nodes[leaf].keys) < get_min_keys
                   THEN rebalance_after_delete(T1, leaf)
                   ELSE T1)

\* the mapping a tree holds, read through get
RECURSIVE LeafChain(_, _)
LeafChain(T, leaf) ==
    IF leaf = NULL THEN <<>>
    ELSE <<leaf>> \o LeafChain(T, T.nodes[leaf].next)

RECURSIVE find_leftmost_from(_, _)
find_leftmost_from(T, node) ==
    IF T.nodes[node].type = "Leaf" THEN node
    ELSE find_leftmost_from(T, T.nodes[node].children[1])

find_leftmost_leaf(T) == find_leftmost_from(T, T.root)

\* Btree::iterate_all: the (key, value) pairs in callback order
RECURSIVE IterFrom(_, _)
IterFrom(T, current) ==
    IF current = NULL THEN <<>>
    ELSE LET L == T.nodes[current]
         IN [i \in 1..Len(L.keys) |-> <<L.keys[i], L.values[i]>>]
            \o IterFrom(T, L.next)

iterate_all(T) == IterFrom(T, find_leftmost_leaf(T))

\* ------------------------------------------------------------------ bytes
RECURSIVE BitXor(_, _)
BitXor(a, b) ==
    IF a = 0 THEN b
    ELSE IF b = 0 THEN a
    ELSE (((a % 2) + (b % 2)) % 2) + 2 * BitXor(a \div 2, b \div 2)

\* ^ on two bytes, tabulated
Xor8 == [a \in 0..255 |-> [b \in 0..255 |-> BitXor(a, b)]]

\* A uint32_t that holds a checksum is kept as its four bytes, least
\* significant first (the model checker's integers are 32-bit signed).
Xor32(a, b) == [i \in 1..4 |-> Xor8[a[i]][b[i]]]

\* crc >> 1 and crc >> 8
Shr1(a) == [i \in 1..4 |-> (a[i] \div 2) + (IF i < 4 THEN (a[i + 1] % 2) * 128 ELSE 0)]
Shr8(a) == <<a[2], a[3], a[4], 0>>

polynomial == <<32, 131, 184, 237>>       \* 0xEDB88320

RECURSIVE crc_table_step(_, _)
crc_table_step(crc, j) ==
    IF j = 0 THEN crc
    ELSE crc_table_step(IF crc[1] % 2 = 1 THEN Xor32(Shr1(crc), polynomial)
                        ELSE Shr1(crc), j - 1)

\* generate_crc32_table
CRC32_TABLE == [i \in 0..255 |-> crc_table_step(<<i, 0, 0, 0>>, 8)]

RECURSIVE crc_loop(_, _, _)
crc_loop(crc, bytes, i) ==
    IF i > Len(bytes) THEN crc
    ELSE crc_loop(Xor32(CRC32_TABLE[Xor8[crc[1]][bytes[i]]], Shr8(crc)),
                  bytes, i + 1)

\* compute_crc32, as the four bytes write_le32 would emit
compute_crc32(bytes) ==
    Xor32(crc_loop(<<255, 255, 255, 255>>, bytes, 1), <<255, 255, 255, 255>>)

\* write_le32 / write_le32_to_fd of a length or a count
write_le32(val) ==
    <<val % 256, (val \div 256) % 256, (val \div 65536) % 256,
      (val \div 16777216) % 256>>

\* read_le32 / read_le32_from_fd of a length or a count.  The result is only
\* compared with the size limits or used as a count, so values of 2^31 and
\* above are reported as 2^31 - 1.
read_le32(data) ==
    IF data[4] >= 128 THEN 2147483647
    ELSE data[1] + 256 * data[2] + 65536 * data[3] + 16777216 * data[4]

\* WalRecordType
Put == 1
Delete == 2
Update == 3
Checkpoint == 3

\* a record whose CRC covers the key and the value only
record_bytes_payload_crc(type, key, value) ==
    <<type>> \o write_le32(Len(key)) \o key \o write_le32(Len(value)) \o value
    \o compute_crc32(key \o value)

\* the bytes WalWriter::write_record puts into the buffer for one record
record_bytes(type, key, value) ==
    LET temp_record == <<type>> \o write_le32(Len(key)) \o key
                       \o write_le32(Len(value)) \o value
    IN temp_record \o compute_crc32(temp_record)

\* ------------------------------------------------------------------ state
VARIABLES
    alive,                 \* an engine object exists (constructed, not destroyed)
    root_, nodes,          \* Btree::root_ and the heap of nodes it owns
    wal_path_,             \* "" or "wal"
    wal_writer_,           \* "null", "open" (fd_ >= 0) or "badfd" (fd_ < 0)
    buffer_,               \* WalWriter::buffer_
    recovering_,
    operation_count_,
    checkpoint_interval_,
    walExists, walFile,    \* the file at wal_path_
    snapExists, snapFile,  \* the file at wal_path_ + ".snapshot"
    tmpExists,             \* the file at wal_path_ + ".snapshot.tmp"
    call,                  \* the last public call: [op, key, value]
    status,                \* the status it returned
    appended,              \* records write_record accepted during that call
    ckpt,                  \* create_checkpoint attempts during that call
    model,                 \* reference map of the calls made on this engine
    durable,               \* per key: the value of this engine's last durable
                           \* mutation
    pending,               \* per key: values it wrote since, not yet durable
    dirty,                 \* per key: the value this engine wrote last and has
                           \* not flushed
    written,               \* the records a WalWriter driven directly has
                           \* accepted, in order
    hist,                  \* "fresh": only mutations and flushes since the
                           \* paths were created; "ckpt": checkpoints too;
                           \* "other": a recovery, a close or a crash as well
    nOps, nFaults, nCrashes

vars == <<alive, root_, nodes, wal_path_, wal_writer_, buffer_, recovering_,
          operation_count_, checkpoint_interval_, walExists, walFile,
          snapExists, snapFile, tmpExists, call, status, appended, ckpt,
          model, durable, pending, dirty, written, hist, nOps, nFaults,
          nCrashes>>

TreeOf(S) == [root |-> S.root_, nodes |-> S.nodes]
SetTree(S, T) == [S EXCEPT !.root_ = T.root, !.nodes = T.nodes]

\* An injected I/O failure: the system call `kind` fails during the call.
\* For "wal_write" the first write(2) of the call stores n bytes and the
\* next one fails; every later write(2) of the same call fails at once.
NoFault == [kind |-> "none", n |-> 0, hit |-> FALSE]

\* ------------------------------------------------------------- WalWriter
\* WalWriter::flush_buffer (flush is the same function)
flush_buffer(S) ==
    IF S.buffer_ = <<>> THEN [S EXCEPT !.st = "Ok"]
    ELSE IF S.fault.kind = "wal_write"
            /\ (S.fault.hit \/ S.fault.n < Len(S.buffer_))
    THEN LET n == IF S.fault.hit THEN 0 ELSE S.fault.n
         IN [S EXCEPT !.walFile = @ \o SubSeq(S.buffer_, 1, n),
                      !.st = "IOError",
                      !.fault.hit = TRUE]
    ELSE [S EXCEPT !.walFile = @ \o S.buffer_,
                   !.buffer_ = <<>>,
                   !.st = "Ok"]

\* WalWriter::sync
sync(S) ==
    LET S1 == flush_buffer(S)
    IN IF S1.st # "Ok" THEN S1
       ELSE IF S1.wal_writer_ = "badfd" THEN [S1 EXCEPT !.st = "IOError"]
       ELSE IF S1.fault.kind = "wal_fsync"
            THEN [S1 EXCEPT !.st = "IOError", !.fault.hit = TRUE]
            ELSE [S1 EXCEPT !.st = "Ok"]

\* WalWriter::write_record
write_record(S, type, key, value) ==
    IF S.wal_writer_ = "badfd" THEN [S EXCEPT !.st = "IOError"]
    ELSE IF Len(key) > MAX_KEY_SIZE THEN [S EXCEPT !.st = "InvalidArgument"]
    ELSE IF Len(value) > MAX_VALUE_SIZE THEN [S EXCEPT !.st = "InvalidArgument"]
    ELSE LET record_size == 1 + 4 + Len(key) + 4 + Len(value) + 4
             S1 == IF Len(S.buffer_) + record_size > BUFFER_SIZE
                   THEN flush_buffer(S)
                   ELSE [S EXCEPT !.st = "Ok"]
         IN IF S1.st # "Ok" THEN S1
            ELSE [S1 EXCEPT
                    !.buffer_ = @ \o record_bytes(type, key, value),
                    !.appended = Append(@, [type |-> type, key |-> key,
                                            value |-> value,
                                            tree |-> TreeOf(S1)]),
                    !.st = "Ok"]

write_put(S, key, value) == write_record(S, Put, key, value)
write_delete(S, key) == write_record(S, Delete, key, <<>>)
write_update(S, key, value) == write_record(S, Update, key, value)
write_checkpoint(S) == write_record(S, Checkpoint, <<>>, <<>>)

\* WalWriter::WalWriter: open(O_WRONLY | O_CREAT | O_APPEND)
WalWriter_ctor(S) ==
    IF S.fault.kind = "wal_open"
    THEN [S EXCEPT !.wal_writer_ = "badfd", !.buffer_ = <<>>, !.fault.hit = TRUE]
    ELSE [S EXCEPT !.wal_writer_ = "open", !.buffer_ = <<>>,
                   !.walExists = TRUE]

\* WalWriter::~WalWriter
WalWriter_dtor(S) ==
    LET S1 == IF S.wal_writer_ = "open" THEN sync(flush_buffer(S)) ELSE S
    IN [S1 EXCEPT !.wal_writer_ = "null", !.buffer_ = <<>>]

\* ----------------------------------------------------------- Snapshotter
SNAPSHOT_MAGIC == <<82, 66, 77, 69>>      \* 0x454D4252, least significant first
SNAPSHOT_VERSION == 1

RECURSIVE entries_bytes(_)
entries_bytes(pairs) ==
    IF pairs = <<>> THEN <<>>
    ELSE LET key == pairs[1][1]
             value == pairs[1][2]
             entry_data == write_le32(Len(key)) \o key
                           \o write_le32(Len(value)) \o value
         IN entry_data \o compute_crc32(entry_data) \o entries_bytes(Tail(pairs))

\* a snapshot whose walk starts at the leaf the root's first separator
\* leads to
snapshot_bytes_from_separator(T) ==
    LET pairs == IF T.nodes[T.root].type = "Leaf" THEN iterate_all(T)
                 ELSE IterFrom(T, find_leaf(T, T.nodes[T.root].keys[1]))
        header_data == SNAPSHOT_MAGIC \o write_le32(SNAPSHOT_VERSION)
                       \o write_le32(Len(pairs))
    IN header_data \o compute_crc32(header_data) \o entries_bytes(pairs)

\* the bytes create_snapshot writes to the temp file
snapshot_bytes(T) ==
    LET pairs == iterate_all(T)
        header_data == SNAPSHOT_MAGIC \o write_le32(SNAPSHOT_VERSION)
                       \o write_le32(Len(pairs))
    IN header_data \o compute_crc32(header_data) \o entries_bytes(pairs)

\* a create_snapshot that writes the file at the snapshot path itself
create_snapshot_in_place(S) ==
    IF S.fault.kind = "snap_open"
    THEN [S EXCEPT !.st = "IOError", !.fault.hit = TRUE]
    ELSE IF S.fault.kind = "snap_header"
    THEN [S EXCEPT !.snapFile = <<>>, !.snapExists = TRUE,
                   !.st = "IOError", !.fault.hit = TRUE]
    ELSE IF S.fault.kind = "snap_entry" /\ iterate_all(TreeOf(S)) # <<>>
    THEN [S EXCEPT !.snapFile = <<>>, !.snapExists = FALSE,
                   !.st = "IOError", !.fault.hit = TRUE]
    ELSE IF S.fault.kind \in {"snap_fsync", "snap_rename"}
    THEN [S EXCEPT !.snapFile = <<>>, !.snapExists = FALSE,
                   !.st = "IOError", !.fault.hit = TRUE]
    ELSE [S EXCEPT !.snapFile = snapshot_bytes(TreeOf(S)),
                   !.snapExists = TRUE,
                   !.st = "Ok"]

\* Snapshotter::create_snapshot
create_snapshot(S) ==
    IF S.fault.kind = "snap_open"
    THEN [S EXCEPT !.st = "IOError", !.fault.hit = TRUE]
    ELSE IF S.fault.kind = "snap_header"
    THEN [S EXCEPT !.tmpExists = TRUE, !.st = "IOError", !.fault.hit = TRUE]
    ELSE IF S.fault.kind = "snap_entry" /\ iterate_all(TreeOf(S)) # <<>>
    THEN [S EXCEPT !.tmpExists = FALSE, !.st = "IOError", !.fault.hit = TRUE]
    ELSE IF S.fault.kind \in {"snap_fsync", "snap_rename"}
    THEN [S EXCEPT !.tmpExists = FALSE, !.st = "IOError", !.fault.hit = TRUE]
    ELSE [S EXCEPT !.snapFile = snapshot_bytes(TreeOf(S)),
                   !.snapExists = TRUE,
                   !.tmpExists = FALSE,
                   !.st = "Ok"]

\* ---------------------------------------------------------------- engine
\* the open(O_WRONLY | O_TRUNC) of Btree::create_checkpoint, lines 617-623
truncate_wal(S4) ==
    IF S4.fault.kind = "wal_trunc"
    THEN [S4 EXCEPT !.fault.hit = TRUE]
    ELSE [S4 EXCEPT !.walFile = <<>>, !.walExists = TRUE]

\* Btree::create_checkpoint, lines 601-634: S1 is the engine after
\* create_snapshot
checkpoint_wal(S1) ==
    IF S1.st # "Ok" THEN [S1 EXCEPT !.ckpt = Append(@, S1.st)]
    ELSE IF S1.wal_writer_ # "null"
    THEN [WalWriter_ctor(truncate_wal(WalWriter_dtor(sync(flush_buffer(S1)))))
            EXCEPT !.st = "Ok", !.ckpt = Append(@, "Ok")]
    ELSE [S1 EXCEPT !.st = "Ok", !.ckpt = Append(@, "Ok")]

\* a checkpoint that goes on to the WAL whatever create_snapshot returned
create_checkpoint_eager(S) ==
    IF S.wal_path_ = ""
    THEN [S EXCEPT !.st = "InvalidArgument", !.ckpt = Append(@, "InvalidArgument")]
    ELSE checkpoint_wal([create_snapshot(S) EXCEPT !.st = "Ok"])

\* Btree::create_checkpoint
create_checkpoint(S) ==
    IF S.wal_path_ = ""
    THEN [S EXCEPT !.st = "InvalidArgument", !.ckpt = Append(@, "InvalidArgument")]
    ELSE checkpoint_wal(create_snapshot(S))

\* a bookkeeping that counts during recovery too
count_operation_always(S) ==
    LET S1 == [S EXCEPT !.operation_count_ = @ + 1]
    IN IF S1.checkpoint_interval_ > 0
          /\ S1.operation_count_ % S1.checkpoint_interval_ = 0
       THEN [create_checkpoint(S1) EXCEPT !.st = "Ok"]
       ELSE [S1 EXCEPT !.st = "Ok"]

\* a bookkeeping that returns what the automatic checkpoint returned
count_operation_failing(S) ==
    IF S.recovering_ THEN [S EXCEPT !.st = "Ok"]
    ELSE LET S1 == [S EXCEPT !.operation_count_ = @ + 1]
         IN IF S1.checkpoint_interval_ > 0
               /\ S1.operation_count_ % S1.checkpoint_interval_ = 0
            THEN create_checkpoint(S1)
            ELSE [S1 EXCEPT !.st = "Ok"]

\* the bookkeeping that ends put, update and remove (btree.cpp 98-108,
\* 129-137, 176-184)
count_operation(S) ==
    IF S.recovering_ THEN [S EXCEPT !.st = "Ok"]
    ELSE LET S1 == [S EXCEPT !.operation_count_ = @ + 1]
         IN IF S1.checkpoint_interval_ > 0
               /\ S1.operation_count_ % S1.checkpoint_interval_ = 0
            THEN [create_checkpoint(S1) EXCEPT !.st = "Ok"]
            ELSE [S1 EXCEPT !.st = "Ok"]

\* Btree::put, lines 86-110, once the tree has taken the pair: r is what
\* tree_put returned
put_count(S1, r) ==
    IF ~r.fresh THEN [SetTree(S1, r.tree) EXCEPT !.st = "Ok"]
    ELSE count_operation(SetTree(S1, r.tree))

\* Btree::put, lines 84-110: S1 is the engine after write_put
put_entry(S1, key, value) ==
    IF S1.st # "Ok" THEN S1
    ELSE put_count(S1, tree_put(TreeOf(S1), key, value))

\* a put that goes on to the tree whatever the WAL append returned
put_ignoring(S, key, value) ==
    put_entry([(IF S.wal_writer_ # "null" /\ ~S.recovering_
                THEN write_put(S, key, value)
                ELSE S) EXCEPT !.st = "Ok"],
              key, value)

\* Btree::put
put(S, key, value) ==
    put_entry(IF S.wal_writer_ # "null" /\ ~S.recovering_
              THEN write_put(S, key, value)
              ELSE [S EXCEPT !.st = "Ok"],
              key, value)

\* Btree::update, lines 124-137: S1 is the engine after write_update
update_entry(S1, leaf, idx, value) ==
    IF S1.st # "Ok" THEN S1
    ELSE count_operation(
             SetTree(S1, tree_update(TreeOf(S1), leaf, idx, value)))

\* an update that stores the value without logging it
update_unlogged(S, key, value) ==
    LET leaf == find_leaf(TreeOf(S), key)
        idx == get_index(S.nodes[leaf], key)
    IN IF idx = -1 THEN [S EXCEPT !.st = "NotFound"]
       ELSE update_entry([S EXCEPT !.st = "Ok"], leaf, idx, value)

\* Btree::update
update(S, key, value) ==
    LET leaf == find_leaf(TreeOf(S), key)
        idx == get_index(S.nodes[leaf], key)
    IN IF idx = -1 THEN [S EXCEPT !.st = "NotFound"]
       ELSE update_entry(IF S.wal_writer_ # "null" /\ ~S.recovering_
                         THEN write_update(S, key, value)
                         ELSE [S EXCEPT !.st = "Ok"],
                         leaf, idx, value)

\* the part of Btree::remove that follows the WAL append: S1 is the engine
\* after write_delete
remove_entry(S1, leaf, idx) ==
    IF S1.st # "Ok" THEN S1
    ELSE LET r == tree_remove(TreeOf(S1), leaf, idx)
         IN IF r.emptied THEN [SetTree(S1, r.tree) EXCEPT !.st = "Ok"]
            ELSE count_operation(SetTree(S1, r.tree))

\* a remove that logs the DELETE before it looks the key up
remove_logging(S, key) ==
    LET leaf == find_leaf(TreeOf(S), key)
        idx == get_index(S.nodes[leaf], key)
    IN IF idx = -1
       THEN LET S1 == IF S.wal_writer_ # "null" /\ ~S.recovering_
                      THEN write_delete(S, key)
                      ELSE [S EXCEPT !.st = "Ok"]
            IN IF S1.st # "Ok" THEN S1 ELSE [S1 EXCEPT !.st = "NotFound"]
       ELSE remove_entry(IF S.wal_writer_ # "null" /\ ~S.recovering_
                         THEN write_delete(S, key)
                         ELSE [S EXCEPT !.st = "Ok"],
                         leaf, idx)

\* Btree::remove
remove(S, key) ==
    LET leaf == find_leaf(TreeOf(S), key)
        idx == get_index(S.nodes[leaf], key)
    IN IF idx = -1 THEN [S EXCEPT !.st = "NotFound"]
       ELSE remove_entry(IF S.wal_writer_ # "null" /\ ~S.recovering_
                         THEN write_delete(S, key)
                         ELSE [S EXCEPT !.st = "Ok"],
                         leaf, idx)

\* Btree::flush_wal
flush_wal(S) ==
    IF S.wal_writer_ # "null" THEN sync(S) ELSE [S EXCEPT !.st = "Ok"]

\* -------------------------------------------------------------- WalReader
\* WalReader::read_bytes (with fill_buffer): n bytes from offset pos
read_bytes(file, pos, n) ==
    IF Len(file) - pos >= n
    THEN [st |-> "Ok", data |-> SubSeq(file, pos + 1, pos + n), pos |-> pos + n]
    ELSE IF Len(file) - pos > 0
    THEN [st |-> "Corruption", data |-> <<>>, pos |-> Len(file)]
    ELSE [st |-> "NotFound", data |-> <<>>, pos |-> pos]

\* a read_next that takes the end of the file inside a record for the end of
\* the log
read_next_lenient(file, pos) ==
    LET bad(st, p) == [st |-> st, type |-> 0, key |-> <<>>, value |-> <<>>, pos |-> p]
        t == read_bytes(file, pos, 1)
    IN IF t.st # "Ok" THEN bad(t.st, t.pos)
       ELSE IF t.data[1] < 1 \/ t.data[1] > 4 THEN bad("Corruption", t.pos)
       ELSE
       LET kl == read_bytes(file, t.pos, 4)
       IN IF kl.st # "Ok" THEN bad("NotFound", kl.pos)
          ELSE
          LET key_len == read_le32(kl.data)
          IN IF key_len > MAX_KEY_SIZE THEN bad("Corruption", kl.pos)
             ELSE
             LET k == IF key_len > 0 THEN read_bytes(file, kl.pos, key_len)
                      ELSE [st |-> "Ok", data |-> <<>>, pos |-> kl.pos]
             IN IF k.st # "Ok" THEN bad("NotFound", k.pos)
                ELSE
                LET vl == read_bytes(file, k.pos, 4)
                IN IF vl.st # "Ok" THEN bad("NotFound", vl.pos)
                   ELSE
                   LET value_len == read_le32(vl.data)
                   IN IF value_len > MAX_VALUE_SIZE THEN bad("Corruption", vl.pos)
                      ELSE
                      LET v == IF value_len > 0
                               THEN read_bytes(file, vl.pos, value_len)
                               ELSE [st |-> "Ok", data |-> <<>>, pos |-> vl.pos]
                      IN IF v.st # "Ok" THEN bad("NotFound", v.pos)
                         ELSE
                         LET c == read_bytes(file, v.pos, 4)
                             record_data == t.data \o kl.data \o k.data
                                            \o vl.data \o v.data
                         IN IF c.st # "Ok" THEN bad("NotFound", c.pos)
                            ELSE IF c.data # compute_crc32(record_data)
                            THEN bad("Corruption", c.pos)
                            ELSE [st |-> "Ok", type |-> t.data[1],
                                  key |-> k.data, value |-> v.data,
                                  pos |-> c.pos]

\* a read_next that hands out a record and stays at its first byte
read_next_peek(file, pos) ==
    LET bad(st, p) == [st |-> st, type |-> 0, key |-> <<>>, value |-> <<>>, pos |-> p]
        t == read_bytes(file, pos, 1)
    IN IF t.st # "Ok" THEN bad(t.st, t.pos)
       ELSE IF t.data[1] < 1 \/ t.data[1] > 4 THEN bad("Corruption", t.pos)
       ELSE
       LET kl == read_bytes(file, t.pos, 4)
       IN IF kl.st # "Ok" THEN bad("Corruption", kl.pos)
          ELSE
          LET key_len == read_le32(kl.data)
          IN IF key_len > MAX_KEY_SIZE THEN bad("Corruption", kl.pos)
             ELSE
             LET k == IF key_len > 0 THEN read_bytes(file, kl.pos, key_len)
                      ELSE [st |-> "Ok", data |-> <<>>, pos |-> kl.pos]
             IN IF k.st # "Ok" THEN bad("Corruption", k.pos)
                ELSE
                LET vl == read_bytes(file, k.pos, 4)
                IN IF vl.st # "Ok" THEN bad("Corruption", vl.pos)
                   ELSE
                   LET value_len == read_le32(vl.data)
                   IN IF value_len > MAX_VALUE_SIZE THEN bad("Corruption", vl.pos)
                      ELSE
                      LET v == IF value_len > 0
                               THEN read_bytes(file, vl.pos, value_len)
                               ELSE [st |-> "Ok", data |-> <<>>, pos |-> vl.pos]
                      IN IF v.st # "Ok" THEN bad("Corruption", v.pos)
                         ELSE
                         LET c == read_bytes(file, v.pos, 4)
                             record_data == t.data \o kl.data \o k.data
                                            \o vl.data \o v.data
                         IN IF c.st # "Ok" THEN bad("Corruption", c.pos)
                            ELSE IF c.data # compute_crc32(record_data)
                            THEN bad("Corruption", c.pos)
                            ELSE [st |-> "Ok", type |-> t.data[1],
                                  key |-> k.data, value |-> v.data,
                                  pos |-> pos]

\* WalReader::read_next
read_next(file, pos) ==
    LET bad(st, p) == [st |-> st, type |-> 0, key |-> <<>>, value |-> <<>>, pos |-> p]
        t == read_bytes(file, pos, 1)
    IN IF t.st # "Ok" THEN bad(t.st, t.pos)
       ELSE IF t.data[1] < 1 \/ t.data[1] > 4 THEN bad("Corruption", t.pos)
       ELSE
       LET kl == read_bytes(file, t.pos, 4)
       IN IF kl.st # "Ok" THEN bad("Corruption", kl.pos)
          ELSE
          LET key_len == read_le32(kl.data)
          IN IF key_len > MAX_KEY_SIZE THEN bad("Corruption", kl.pos)
             ELSE
             LET k == IF key_len > 0 THEN read_bytes(file, kl.pos, key_len)
                      ELSE [st |-> "Ok", data |-> <<>>, pos |-> kl.pos]
             IN IF k.st # "Ok" THEN bad("Corruption", k.pos)
                ELSE
                LET vl == read_bytes(file, k.pos, 4)
                IN IF vl.st # "Ok" THEN bad("Corruption", vl.pos)
                   ELSE
                   LET value_len == read_le32(vl.data)
                   IN IF value_len > MAX_VALUE_SIZE THEN bad("Corruption", vl.pos)
                      ELSE
                      LET v == IF value_len > 0
                               THEN read_bytes(file, vl.pos, value_len)
                               ELSE [st |-> "Ok", data |-> <<>>, pos |-> vl.pos]
                      IN IF v.st # "Ok" THEN bad("Corruption", v.pos)
                         ELSE
                         LET c == read_bytes(file, v.pos, 4)
                             record_data == t.data \o kl.data \o k.data
                                            \o vl.data \o v.data
                         IN IF c.st # "Ok" THEN bad("Corruption", c.pos)
                            ELSE IF c.data # compute_crc32(record_data)
                            THEN bad("Corruption", c.pos)
                            ELSE [st |-> "Ok", type |-> t.data[1],
                                  key |-> k.data, value |-> v.data,
                                  pos |-> c.pos]

\* ------------------------------------------------------- snapshot loading
\* read(2) of n bytes at pos: fewer than n is a failure for every caller
snap_read(file, pos, n) ==
    IF Len(file) - pos >= n
    THEN [ok |-> TRUE, data |-> SubSeq(file, pos + 1, pos + n), pos |-> pos + n]
    ELSE [ok |-> FALSE, data |-> <<>>, pos |-> Len(file)]

\* read_string_from_fd
read_string_from_fd(file, pos) ==
    LET l == snap_read(file, pos, 4)
    IN IF ~l.ok THEN [st |-> "IOError", data |-> <<>>, pos |-> l.pos]
       ELSE LET len == read_le32(l.data)
            IN IF len > MAX_KEY_SIZE * 10
               THEN [st |-> "Corruption", data |-> <<>>, pos |-> l.pos]
               ELSE IF len = 0 THEN [st |-> "Ok", data |-> <<>>, pos |-> l.pos]
               ELSE LET d == snap_read(file, l.pos, len)
                    IN IF ~d.ok THEN [st |-> "IOError", data |-> <<>>, pos |-> d.pos]
                       ELSE [st |-> "Ok", data |-> d.data, pos |-> d.pos]

\* the entry loop of Snapshotter::load_snapshot: load_entries reads the key
\* of entry i, load_entry the value and the checksum once the key k is read,
\* load_entry_put applies the entry and goes on to the next
RECURSIVE load_entries(_, _, _, _), load_entry(_, _, _, _, _),
          load_entry_put(_, _, _, _, _, _)
load_entry_put(S, k, v, c, i, entry_count) ==
    IF ~c.ok THEN [S EXCEPT !.st = "Corruption"]
    ELSE IF c.data # compute_crc32(write_le32(Len(k.data)) \o k.data
                                   \o write_le32(Len(v.data)) \o v.data)
    THEN [S EXCEPT !.st = "Corruption"]
    ELSE LET S1 == put(S, k.data, v.data)
         IN IF S1.st # "Ok" THEN S1
            ELSE load_entries(S1, c.pos, i + 1, entry_count)

load_entry(S, k, v, i, entry_count) ==
    IF v.st # "Ok" THEN [S EXCEPT !.st = "Corruption"]
    ELSE load_entry_put(S, k, v, snap_read(S.snapFile, v.pos, 4), i, entry_count)

load_entries(S, pos, i, entry_count) ==
    IF i >= entry_count THEN [S EXCEPT !.st = "Ok"]
    ELSE
    LET k == read_string_from_fd(S.snapFile, pos)
    IN IF k.st # "Ok" THEN [S EXCEPT !.st = "Corruption"]
       ELSE load_entry(S, k, read_string_from_fd(S.snapFile, k.pos), i, entry_count)

\* Snapshotter::load_snapshot with validate_snapshot_header
load_snapshot(S) ==
    IF ~S.snapExists THEN [S EXCEPT !.st = "Ok"]
    ELSE
    LET magic == snap_read(S.snapFile, 0, 4)
        version == snap_read(S.snapFile, magic.pos, 4)
        count == snap_read(S.snapFile, version.pos, 4)
        crc == snap_read(S.snapFile, count.pos, 4)
    IN IF ~magic.ok THEN [S EXCEPT !.st = "IOError"]
       ELSE IF magic.data # SNAPSHOT_MAGIC THEN [S EXCEPT !.st = "Corruption"]
       ELSE IF ~version.ok THEN [S EXCEPT !.st = "IOError"]
       ELSE IF version.data # write_le32(SNAPSHOT_VERSION)
       THEN [S EXCEPT !.st = "Corruption"]
       ELSE IF ~count.ok THEN [S EXCEPT !.st = "IOError"]
       ELSE IF ~crc.ok THEN [S EXCEPT !.st = "IOError"]
       ELSE IF crc.data # compute_crc32(SNAPSHOT_MAGIC
                                        \o write_le32(SNAPSHOT_VERSION)
                                        \o count.data)
       THEN [S EXCEPT !.st = "Corruption"]
       ELSE load_entries(S, crc.pos, 0, read_le32(count.data))

\* --------------------------------------------------------------- recovery
\* the replay loop of Btree::recover_from_wal: replay reads the record at
\* pos, replay_record applies it, replay_update is the UPDATE case once update
\* has returned, and replay_continue goes on to the next record unless the
\* operation failed with a status the loop does not tolerate
RECURSIVE replay(_, _), replay_record(_, _), replay_update(_, _),
          replay_continue(_, _, _)
replay_continue(S1, pos, tolerated) ==
    IF S1.st # "Ok" /\ S1.st \notin tolerated THEN S1 ELSE replay(S1, pos)

\* an UPDATE case that fails on a key the tree does not hold
replay_update_strict(S1, record) ==
    replay_continue(S1, record.pos, {})

replay_update(S1, record) ==
    IF S1.st = "NotFound"
    THEN replay_continue(put(S1, record.key, record.value), record.pos, {})
    ELSE replay_continue(S1, record.pos, {})

replay_record(S, record) ==
    IF record.st = "NotFound" THEN [S EXCEPT !.st = "Ok"]
    ELSE IF record.st # "Ok" THEN [S EXCEPT !.st = record.st]
    ELSE IF record.type = Put
    THEN replay_continue(put(S, record.key, record.value), record.pos, {})
    ELSE IF record.type = Delete
    THEN replay_continue(remove(S, record.key), record.pos, {"NotFound"})
    ELSE IF record.type = Update
    THEN replay_update(update(S, record.key, record.value), record)
    ELSE replay(S, record.pos)

replay(S, pos) == replay_record(S, read_next(S.walFile, pos))

\* a replay that falls back to the snapshot's tree when a record is bad
recover_wal_all_or_nothing(S1) ==
    IF S1.st # "Ok" THEN S1
    ELSE IF ~S1.walExists THEN [S1 EXCEPT !.st = "Ok"]
    ELSE LET R == replay(S1, 0)
         IN IF R.st # "Ok" THEN SetTree(R, TreeOf(S1)) ELSE R

\* Btree::recover_from_wal, the WAL part: S1 is the engine after the snapshot
\* was loaded
recover_wal(S1) ==
    IF S1.st # "Ok" THEN S1
    ELSE IF ~S1.walExists THEN [S1 EXCEPT !.st = "Ok"]
    ELSE replay(S1, 0)

\* Btree::recover_from_wal, the snapshot part
recover_snapshot(S0) ==
    IF S0.snapExists THEN load_snapshot(S0) ELSE [S0 EXCEPT !.st = "Ok"]

\* a recovery that empties the WAL it has replayed
recover_from_wal_consuming(S) ==
    IF S.wal_path_ = "" THEN [S EXCEPT !.st = "Ok"]
    ELSE [recover_wal(recover_snapshot([S EXCEPT !.recovering_ = TRUE]))
            EXCEPT !.recovering_ = FALSE, !.walFile = <<>>]

\* a recovery that leaves the flag set when it returns an error
recover_from_wal_sticky(S) ==
    IF S.wal_path_ = "" THEN [S EXCEPT !.st = "Ok"]
    ELSE LET R == recover_wal(recover_snapshot([S EXCEPT !.recovering_ = TRUE]))
         IN [R EXCEPT !.recovering_ = (R.st # "Ok")]

\* Btree::recover_from_wal
recover_from_wal(S) ==
    IF S.wal_path_ = "" THEN [S EXCEPT !.st = "Ok"]
    ELSE [recover_wal(recover_snapshot([S EXCEPT !.recovering_ = TRUE]))
            EXCEPT !.recovering_ = FALSE]

\* ---------------------------------------------------------------- inputs
Keys == {<<i>> : i \in 1..NumKeys}
Vals == {<<i>> : i \in 1..NumVals}
TreeKeys == {<<i>> : i \in 1..NumTreeKeys}
TreeVals(key) == IF key[1] <= NumTwoValKeys THEN {<<1>>, <<2>>} ELSE {<<1>>}
\* the keys the callers of the engine use: by whether it has a WAL path
AllKeys == IF wal_path_ = "" THEN TreeKeys ELSE Keys
Intervals == 1..MaxInterval

Faults ==
    {NoFault}
    \cup {[kind |-> "wal_write", n |-> n, hit |-> FALSE] : n \in 0..MaxPartial}
    \cup {[kind |-> k, n |-> 0, hit |-> FALSE] :
            k \in {"wal_fsync", "wal_open", "wal_trunc", "snap_open",
                   "snap_header", "snap_entry", "snap_fsync", "snap_rename"}}

\* the mapping a tree holds, as get reports it
MapOf(T) == [k \in AllKeys |-> get(T, k)]
Tree == [root |-> root_, nodes |-> nodes]
NoMap == [k \in AllKeys |-> nullopt]

\* no mutation of the key is known to be durable
Unknown == <<-2>>

\* no engine, no files
Blank ==
    [root_ |-> EmptyTree.root, nodes |-> EmptyTree.nodes, wal_path_ |-> "",
     wal_writer_ |-> "null", buffer_ |-> <<>>,
     recovering_ |-> FALSE, operation_count_ |-> 0,
     checkpoint_interval_ |-> 10000,
     walExists |-> FALSE, walFile |-> <<>>,
     snapExists |-> FALSE, snapFile |-> <<>>, tmpExists |-> FALSE,
     fault |-> NoFault, st |-> "Ok", appended |-> <<>>, ckpt |-> <<>>]

\* the engine and the files as one record, for the operators above
St(f) ==
    [root_ |-> root_, nodes |-> nodes, wal_path_ |-> wal_path_,
     wal_writer_ |-> wal_writer_, buffer_ |-> buffer_,
     recovering_ |-> recovering_, operation_count_ |-> operation_count_,
     checkpoint_interval_ |-> checkpoint_interval_,
     walExists |-> walExists, walFile |-> walFile,
     snapExists |-> snapExists, snapFile |-> snapFile, tmpExists |-> tmpExists,
     fault |-> f, st |-> "Ok", appended |-> <<>>, ckpt |-> <<>>]

Install(S) ==
    LET T == Canon(TreeOf(S))
    IN /\ root_' = T.root
       /\ nodes' = T.nodes
       /\ wal_writer_' = S.wal_writer_
       /\ buffer_' = S.buffer_
       /\ recovering_' = S.recovering_
       /\ operation_count_' = S.operation_count_
       /\ checkpoint_interval_' = S.checkpoint_interval_
       /\ walExists' = S.walExists
       /\ walFile' = S.walFile
       /\ snapExists' = S.snapExists
       /\ snapFile' = S.snapFile
       /\ tmpExists' = S.tmpExists
       /\ status' = S.st
       /\ appended' = S.appended
       /\ ckpt' = S.ckpt

\* the engine object is gone: its memory with it
Gone ==
    /\ alive' = FALSE
    /\ root_' = EmptyTree.root /\ nodes' = EmptyTree.nodes
    /\ wal_writer_' = "null" /\ buffer_' = <<>>
    /\ recovering_' = FALSE
    /\ operation_count_' = 0 /\ checkpoint_interval_' = 10000
    /\ model' = NoMap
    /\ dirty' = [k \in AllKeys |-> Unknown]
    /\ appended' = <<>> /\ ckpt' = <<>>

\* the faults a call may meet
FaultsNow == IF nFaults < MaxFaults THEN Faults ELSE {NoFault}

\* put, update and remove reach a failing system call only through the flush
\* of a full buffer or through an automatic checkpoint
MutationFaults(key, value) ==
    IF \/ Len(buffer_) + 1 + 4 + Len(key) + 4 + Len(value) + 4 > BUFFER_SIZE
       \/ /\ checkpoint_interval_ > 0
          /\ (operation_count_ + 1) % checkpoint_interval_ = 0
    THEN FaultsNow
    ELSE {NoFault}

\* a fault is injected only where the call reaches the failing system call
FaultGuard(f, S) ==
    /\ f # NoFault => S.fault.hit
    /\ nFaults' = IF f = NoFault THEN nFaults ELSE nFaults + 1

OpGuard ==
    /\ alive
    /\ nOps < (IF wal_path_ = "" THEN MaxTreeOps ELSE MaxOps)
    /\ nOps' = nOps + 1

SomeOk(seq) == \E i \in 1..Len(seq) : seq[i] = "Ok"

\* Btree::Btree
Btree_ctor(S, path) ==
    LET S0 == [S EXCEPT !.root_ = EmptyTree.root, !.nodes = EmptyTree.nodes,
                        !.wal_path_ = path, !.recovering_ = FALSE,
                        !.operation_count_ = 0, !.checkpoint_interval_ = 10000,
                        !.wal_writer_ = "null", !.buffer_ = <<>>]
    IN IF path = "" THEN S0
       ELSE LET S1 == WalWriter_ctor(S0)
            IN IF S1.wal_writer_ = "badfd"
               THEN [S1 EXCEPT !.wal_writer_ = "null"]
               ELSE S1

\* Btree::~Btree, then the destruction of its members
Btree_dtor(S) ==
    LET S1 == IF S.wal_writer_ # "null" THEN sync(flush_buffer(S)) ELSE S
    IN WalWriter_dtor(S1)

\* what a fresh engine opened on the present files recovers
Recovered ==
    LET R == recover_from_wal(Btree_ctor(St(NoFault), "wal"))
    IN [st |-> R.st, map |-> MapOf(TreeOf(R))]

\* the engine without a WAL path after n puts in ascending key order, in
\* descending key order, or from both ends inwards
PreloadKeys(n, dir) ==
    [i \in 1..n |-> IF dir = "asc" THEN <<i>>
                    ELSE IF dir = "desc" THEN <<NumTreeKeys + 1 - i>>
                    ELSE IF i % 2 = 1 THEN <<(i + 1) \div 2>>
                    ELSE <<NumTreeKeys + 1 - (i \div 2)>>]

RECURSIVE Preload(_, _)
Preload(S, ks) ==
    IF ks = <<>> THEN S ELSE Preload(put(S, Head(ks), <<1>>), Tail(ks))

\* ---------------------------------------------------------------- actions
Ghosts0 ==
    /\ call = [op |-> "none"]
    /\ status = "Ok"
    /\ appended = <<>> /\ ckpt = <<>>
    /\ durable = [k \in AllKeys |-> Unknown]
    /\ pending = [k \in AllKeys |-> {}]
    /\ dirty = [k \in AllKeys |-> Unknown]
    /\ written = <<>>
    /\ hist = "fresh"
    /\ nOps = 0 /\ nFaults = 0 /\ nCrashes = 0

Init ==
    /\ alive = FALSE
    /\ root_ = EmptyTree.root /\ nodes = EmptyTree.nodes
    /\ wal_path_ = "wal"
    /\ wal_writer_ = "null" /\ buffer_ = <<>>
    /\ recovering_ = FALSE
    /\ operation_count_ = 0 /\ checkpoint_interval_ = 10000
    /\ walExists = FALSE /\ walFile = <<>>
    /\ snapExists = FALSE /\ snapFile = <<>>
    /\ tmpExists = FALSE
    /\ model = NoMap
    /\ Ghosts0

\* Btree(""), loaded by the caller with 0..NumTreeKeys puts
InitTree ==
    \E n \in 0..NumTreeKeys : \E dir \in {"asc", "desc", "inwards"} :
        LET S == Preload(Btree_ctor(Blank, ""), PreloadKeys(n, dir))
            T == Canon(TreeOf(S))
        IN /\ alive = TRUE
           /\ root_ = T.root /\ nodes = T.nodes
           /\ wal_path_ = ""
           /\ wal_writer_ = "null" /\ buffer_ = <<>>
           /\ recovering_ = FALSE
           /\ operation_count_ = S.operation_count_
           /\ checkpoint_interval_ = S.checkpoint_interval_
           /\ walExists = FALSE /\ walFile = <<>>
           /\ snapExists = FALSE /\ snapFile = <<>>
           /\ tmpExists = FALSE
           /\ model = MapOf(T)
           /\ Ghosts0

\* what put, update and remove share: the result S of the call is installed
\* and the ghosts follow
Mutation(S, f, key, c, m) ==
    /\ FaultGuard(f, S)
    /\ Install(S)
    /\ call' = IF wal_path_ = "" THEN [op |-> c.op, expect |-> c.expect] ELSE c
    /\ model' = m
    /\ LET wrote == S.st = "Ok" /\ wal_path_ # ""
           p == IF wrote
                THEN [pending EXCEPT ![key] = @ \cup {get(TreeOf(S), key)}]
                ELSE pending
           d == IF wrote
                THEN [dirty EXCEPT ![key] = get(TreeOf(S), key)]
                ELSE dirty
       IN IF SomeOk(S.ckpt)
          THEN /\ durable' = [k \in AllKeys |->
                                IF d[k] # Unknown THEN d[k] ELSE durable[k]]
               /\ pending' = [k \in AllKeys |->
                                IF d[k] # Unknown THEN {} ELSE p[k]]
               /\ dirty' = [k \in AllKeys |-> Unknown]
          ELSE /\ durable' = durable
               /\ pending' = p
               /\ dirty' = d
    /\ hist' = IF hist = "fresh" /\ S.ckpt # <<>> THEN "ckpt" ELSE hist
    /\ UNCHANGED <<alive, wal_path_, nCrashes>>
    /\ UNCHANGED written

PutOp(key, value, f) ==
    /\ OpGuard
    /\ LET S == put(St(f), key, value)
       IN Mutation(S, f, key,
                   [op |-> "put", key |-> key, value |-> value, fault |-> f,
                    expect |-> "Ok"],
                   IF S.st \in {"IOError", "InvalidArgument"} THEN model
                   ELSE [model EXCEPT ![key] = value])

UpdateOp(key, value, f) ==
    /\ OpGuard
    /\ LET S == update(St(f), key, value)
       IN Mutation(S, f, key,
                   [op |-> "update", key |-> key, value |-> value, fault |-> f,
                    expect |-> IF model[key] = nullopt THEN "NotFound" ELSE "Ok"],
                   IF S.st \in {"IOError", "InvalidArgument"}
                      \/ model[key] = nullopt THEN model
                   ELSE [model EXCEPT ![key] = value])

RemoveOp(key, f) ==
    /\ OpGuard
    /\ LET S == remove(St(f), key)
       IN Mutation(S, f, key,
                   [op |-> "remove", key |-> key, value |-> <<>>, fault |-> f,
                    expect |-> IF model[key] = nullopt THEN "NotFound" ELSE "Ok"],
                   IF S.st \in {"IOError", "InvalidArgument"} THEN model
                   ELSE [model EXCEPT ![key] = nullopt])

NextTree ==
    \/ \E key \in TreeKeys : \E value \in TreeVals(key) : PutOp(key, value, NoFault)
    \/ \E key \in TreeKeys : \E value \in TreeVals(key) : UpdateOp(key, value, NoFault)
    \/ \E key \in TreeKeys : RemoveOp(key, NoFault)

SpecTree == InitTree /\ [][NextTree]_vars

\* ------------------------------------------------- keys and values by size
\* a byte string of n bytes
Bytes(n) == [i \in 1..n |-> 1]
SizedKeys == {Bytes(1), Bytes(MAX_KEY_SIZE), Bytes(MAX_KEY_SIZE + 1)}
SizedVals == {Bytes(1), Bytes(MAX_VALUE_SIZE), Bytes(MAX_VALUE_SIZE + 1)}

\* an engine just constructed: Btree(wal) whose WAL opened, Btree(""), or
\* Btree(wal) whose WAL failed to open
InitSized ==
    \E made \in {[path |-> "wal", f |-> NoFault], [path |-> "", f |-> NoFault],
                 [path |-> "wal", f |-> [kind |-> "wal_open", n |-> 0, hit |-> FALSE]]} :
        LET S == Btree_ctor([Blank EXCEPT !.fault = made.f], made.path)
        IN /\ alive = TRUE
           /\ root_ = S.root_ /\ nodes = S.nodes
           /\ wal_path_ = made.path
           /\ wal_writer_ = S.wal_writer_ /\ buffer_ = S.buffer_
           /\ recovering_ = S.recovering_
           /\ operation_count_ = S.operation_count_
           /\ checkpoint_interval_ = S.checkpoint_interval_
           /\ walExists = S.walExists /\ walFile = S.walFile
           /\ snapExists = S.snapExists /\ snapFile = S.snapFile
           /\ tmpExists = S.tmpExists
           /\ model = NoMap
           /\ Ghosts0

\* Btree::put of a key and a value of chosen sizes
PutSized(key, value) ==
    /\ alive
    /\ nOps < MaxSizedOps
    /\ nOps' = nOps + 1
    /\ Install(put(St(NoFault), key, value))
    /\ call' = [op |-> "put_sized", key |-> key, value |-> value]
    /\ UNCHANGED <<alive, wal_path_, model, durable, pending, dirty, hist,
                   nFaults, nCrashes>>
    /\ UNCHANGED written

NextSized == \E key \in SizedKeys : \E value \in SizedVals : PutSized(key, value)

\* the three kinds of engine, given keys and values up to one byte over the
\* limits
SpecSized == InitSized /\ [][NextSized]_vars

\* a successful flush_wal or checkpoint: what this engine wrote is durable
Durably ==
    /\ durable' = [k \in AllKeys |->
                     IF dirty[k] # Unknown THEN dirty[k] ELSE durable[k]]
    /\ pending' = [k \in AllKeys |->
                     IF dirty[k] # Unknown THEN {} ELSE pending[k]]
    /\ dirty' = [k \in AllKeys |-> Unknown]

\* Btree::Btree(wal_path)
Open(f) ==
    /\ ~alive
    /\ LET S == Btree_ctor(St(f), wal_path_)
       IN /\ FaultGuard(f, S)
          /\ Install(S)
    /\ alive' = TRUE
    /\ call' = [op |-> "open", fault |-> f]
    /\ model' = NoMap
    /\ durable' = [k \in AllKeys |-> Unknown]
    /\ pending' = [k \in AllKeys |-> {}]
    /\ UNCHANGED <<wal_path_, dirty, hist, nOps, nCrashes>>
    /\ UNCHANGED written

\* Btree::set_checkpoint_interval, called by the code that made the engine
SetCheckpointInterval(interval) ==
    /\ alive
    /\ call.op = "open"
    /\ checkpoint_interval_' = interval
    /\ call' = [op |-> "set_checkpoint_interval", fault |-> NoFault]
    /\ UNCHANGED <<alive, root_, nodes, wal_path_, wal_writer_, buffer_,
                   recovering_, operation_count_, walExists, walFile,
                   snapExists, snapFile, tmpExists, status, appended, ckpt,
                   model, durable, pending, dirty, hist, nOps, nFaults,
          nCrashes>>
    /\ UNCHANGED written

FlushWal(f) ==
    /\ OpGuard
    /\ LET S == flush_wal(St(f))
       IN /\ FaultGuard(f, S)
          /\ Install(S)
          /\ IF S.st = "Ok" /\ S.wal_writer_ # "null"
             THEN Durably
             ELSE UNCHANGED <<durable, pending, dirty>>
    /\ call' = [op |-> "flush_wal", fault |-> f]
    /\ UNCHANGED <<alive, wal_path_, model, hist, nCrashes>>
    /\ UNCHANGED written

CreateCheckpoint(f) ==
    /\ OpGuard
    /\ LET S == create_checkpoint(St(f))
       IN /\ FaultGuard(f, S)
          /\ Install(S)
          /\ IF S.st = "Ok"
             THEN Durably
             ELSE UNCHANGED <<durable, pending, dirty>>
    /\ call' = [op |-> "create_checkpoint", fault |-> f]
    /\ hist' = IF hist = "fresh" THEN "ckpt" ELSE hist
    /\ UNCHANGED <<alive, wal_path_, model, nCrashes>>
    /\ UNCHANGED written

\* Btree::recover_from_wal, run by the caller on the engine it has just
\* made, once or several times, before any other call
RecoverFromWal ==
    /\ OpGuard
    /\ call.op \in {"open", "set_checkpoint_interval", "recover"}
    /\ LET S == recover_from_wal(St(NoFault))
       IN /\ Install(S)
          /\ model' = MapOf(TreeOf(S))
    /\ call' = [op |-> "recover",
                first |-> call.op \in {"open", "set_checkpoint_interval"},
                again |-> call.op = "recover"]
    /\ hist' = "other"
    /\ UNCHANGED <<alive, wal_path_, durable, pending, dirty, nFaults,
                   nCrashes>>
    /\ UNCHANGED written

\* Btree::~Btree
Close(f) ==
    /\ OpGuard
    /\ LET S == Btree_dtor(St(f))
       IN /\ FaultGuard(f, S)
          /\ walExists' = S.walExists
          /\ walFile' = S.walFile
    /\ Gone
    /\ call' = [op |-> "close", fault |-> f]
    /\ status' = "Ok"
    /\ hist' = "other"
    /\ UNCHANGED <<wal_path_, snapExists, snapFile, tmpExists, durable, pending,
                   nCrashes>>
    /\ UNCHANGED written

\* the process is killed between two calls
Crash ==
    /\ alive
    /\ nCrashes < MaxCrashes
    /\ nCrashes' = nCrashes + 1
    /\ Gone
    /\ call' = [op |-> "crash", at |-> "idle"]
    /\ status' = "Ok"
    /\ hist' = "other"
    /\ UNCHANGED <<wal_path_, walExists, walFile, snapExists, snapFile,
                   tmpExists, durable, pending, nOps, nFaults>>
    /\ UNCHANGED written

\* the process is killed inside WalWriter::flush_buffer, after a write(2)
\* that stored the first n bytes of the buffer
CrashInFlush(n) ==
    /\ alive
    /\ nCrashes < MaxCrashes
    /\ wal_writer_ = "open"
    /\ n < Len(buffer_)
    /\ nCrashes' = nCrashes + 1
    /\ walFile' = walFile \o SubSeq(buffer_, 1, n)
    /\ Gone
    /\ call' = [op |-> "crash", at |-> "flush"]
    /\ status' = "Ok"
    /\ hist' = "other"
    /\ UNCHANGED <<wal_path_, walExists, snapExists, snapFile,
                   tmpExists, durable, pending, nOps, nFaults>>
    /\ UNCHANGED written

\* the process is killed inside Btree::create_checkpoint: while the temp
\* file is written ("tmp"), or after the rename and before the truncation
\* ("renamed"), the flush of line 606 having stored n bytes of the buffer
CrashInCheckpoint(stage, n) ==
    /\ alive
    /\ nCrashes < MaxCrashes
    /\ wal_path_ # ""
    /\ n <= Len(buffer_)
    /\ stage = "tmp" => n = 0
    /\ nCrashes' = nCrashes + 1
    /\ IF stage = "tmp"
       THEN /\ tmpExists' = TRUE
            /\ UNCHANGED <<snapExists, snapFile, walFile>>
       ELSE /\ snapFile' = snapshot_bytes(Tree)
            /\ snapExists' = TRUE
            /\ tmpExists' = FALSE
            /\ walFile' = walFile \o SubSeq(buffer_, 1, n)
    /\ Gone
    /\ call' = [op |-> "crash", at |-> stage, map |-> MapOf(Tree)]
    /\ status' = "Ok"
    /\ hist' = "other"
    /\ UNCHANGED <<wal_path_, walExists, durable, pending, nOps, nFaults>>
    /\ UNCHANGED written

Next ==
    \/ \E f \in FaultsNow : Open(f)
    \/ \E interval \in Intervals : SetCheckpointInterval(interval)
    \/ \E key \in Keys : \E value \in Vals :
         \E f \in MutationFaults(key, value) : PutOp(key, value, f)
    \/ \E key \in Keys : \E value \in Vals :
         \E f \in MutationFaults(key, value) : UpdateOp(key, value, f)
    \/ \E key \in Keys : \E f \in MutationFaults(key, <<>>) : RemoveOp(key, f)
    \/ \E f \in FaultsNow : FlushWal(f)
    \/ \E f \in FaultsNow : CreateCheckpoint(f)
    \/ RecoverFromWal
    \/ \E f \in FaultsNow : Close(f)

\* the engine with a WAL path, its system calls failing at most MaxFaults times
Spec == Init /\ [][Next]_vars

NextCrash ==
    \/ Open(NoFault)
    \/ \E interval \in Intervals : SetCheckpointInterval(interval)
    \/ \E key \in Keys : \E value \in Vals : PutOp(key, value, NoFault)
    \/ \E key \in Keys : \E value \in Vals : UpdateOp(key, value, NoFault)
    \/ \E key \in Keys : RemoveOp(key, NoFault)
    \/ FlushWal(NoFault)
    \/ CreateCheckpoint(NoFault)
    \/ RecoverFromWal
    \/ Close(NoFault)
    \/ Crash
    \/ \E n \in 1..MaxPartial : CrashInFlush(n)
    \/ \E stage \in {"tmp", "renamed"} :
         \E n \in (0..MaxPartial) \cup {Len(buffer_)} : CrashInCheckpoint(stage, n)

\* the engine with a WAL path, its process killed at most MaxCrashes times
SpecCrash == Init /\ [][NextCrash]_vars

\* the log file loses its tail while no engine has it open: only its first
\* n bytes remain (a torn write, a copy that stopped, a file system that
\* lost the last blocks)
TruncateWal(n) ==
    /\ ~alive
    /\ walExists
    /\ nCrashes < MaxCrashes
    /\ n < Len(walFile)
    /\ nCrashes' = nCrashes + 1
    /\ walFile' = SubSeq(walFile, 1, n)
    /\ call' = [op |-> "truncate", len |-> n]
    /\ status' = "Ok"
    /\ hist' = "truncated"
    /\ UNCHANGED <<alive, root_, nodes, wal_path_, wal_writer_, buffer_,
                   recovering_, operation_count_, checkpoint_interval_,
                   walExists, snapExists, snapFile, tmpExists, appended, ckpt,
                   model, durable, pending, dirty, nOps, nFaults>>
    /\ UNCHANGED written

NextTorn ==
    \/ Open(NoFault)
    \/ \E key \in Keys : \E value \in Vals : PutOp(key, value, NoFault)
    \/ \E key \in Keys : \E value \in Vals : UpdateOp(key, value, NoFault)
    \/ \E key \in Keys : RemoveOp(key, NoFault)
    \/ FlushWal(NoFault)
    \/ RecoverFromWal
    \/ Close(NoFault)
    \/ \E n \in 0..(Len(walFile) - 1) : TruncateWal(n)

\* the engine with a WAL path and no checkpoint, its log file truncated at
\* most MaxCrashes times between two runs
SpecTorn == Init /\ [][NextTorn]_vars

\* the snapshot file is cut to its first n bytes while no engine is running
TruncateSnapshot(n) ==
    /\ ~alive
    /\ snapExists
    /\ nCrashes < MaxCrashes
    /\ n < Len(snapFile)
    /\ nCrashes' = nCrashes + 1
    /\ snapFile' = SubSeq(snapFile, 1, n)
    /\ call' = [op |-> "truncate_snapshot", len |-> n]
    /\ status' = "Ok"
    /\ hist' = "snapshot_cut"
    /\ UNCHANGED <<alive, root_, nodes, wal_path_, wal_writer_, buffer_,
                   recovering_, operation_count_, checkpoint_interval_,
                   walExists, walFile, snapExists, tmpExists, appended, ckpt,
                   model, durable, pending, dirty, written, nOps, nFaults>>

\* byte i of the snapshot file is XORed with 0xFF while no engine is running
FlipSnapshot(i) ==
    /\ ~alive
    /\ snapExists
    /\ nCrashes < MaxCrashes
    /\ i \in 1..Len(snapFile)
    /\ nCrashes' = nCrashes + 1
    /\ snapFile' = [snapFile EXCEPT ![i] = 255 - @]
    /\ call' = [op |-> "flip_snapshot", at |-> i]
    /\ status' = "Ok"
    /\ hist' = "snapshot_flipped"
    /\ UNCHANGED <<alive, root_, nodes, wal_path_, wal_writer_, buffer_,
                   recovering_, operation_count_, checkpoint_interval_,
                   walExists, walFile, snapExists, tmpExists, appended, ckpt,
                   model, durable, pending, dirty, written, nOps, nFaults>>

\* the bytes that are flipped: the first byte of the magic, of the version,
\* of the entry count and of the header CRC, and the first byte of each
\* field of the first entry (key length, key, value length, value, CRC)
FlipPlaces == {1, 5, 9, 13, 17, 21, 22, 26, 27}

NextSnap ==
    \/ Open(NoFault)
    \/ \E interval \in Intervals : SetCheckpointInterval(interval)
    \/ \E key \in Keys : \E value \in Vals : PutOp(key, value, NoFault)
    \/ \E key \in Keys : RemoveOp(key, NoFault)
    \/ \E f \in FaultsNow : CreateCheckpoint(f)
    \/ RecoverFromWal
    \/ Close(NoFault)
    \/ \E stage \in {"tmp", "renamed"} :
         \E n \in (0..MaxPartial) \cup {Len(buffer_)} : CrashInCheckpoint(stage, n)
    \/ \E n \in 0..(Len(snapFile) - 1) : TruncateSnapshot(n)
    \/ \E i \in FlipPlaces : FlipSnapshot(i)

\* the engine with a WAL path and checkpoints: the snapshot's system calls
\* fail, the process is killed inside a checkpoint, the snapshot file is
\* damaged between two runs
SpecSnap == Init /\ [][NextSnap]_vars

\* ------------------------------------------- a WalWriter driven directly
LogKeys == {<<>>, <<1>>, <<2>>}
LogVals == {<<>>, <<1>>}
LogKinds == {"write_put", "write_update", "write_delete", "write_checkpoint"}

\* a WalWriter just constructed on an empty path, beside no snapshot or the
\* snapshot of a one-key tree
InitLog ==
    \E snap \in BOOLEAN :
        LET W == WalWriter_ctor([Blank EXCEPT !.wal_path_ = "wal"])
        IN /\ alive = FALSE
           /\ root_ = EmptyTree.root /\ nodes = EmptyTree.nodes
           /\ wal_path_ = "wal"
           /\ wal_writer_ = W.wal_writer_ /\ buffer_ = W.buffer_
           /\ recovering_ = FALSE
           /\ operation_count_ = 0 /\ checkpoint_interval_ = 10000
           /\ walExists = W.walExists /\ walFile = W.walFile
           /\ snapExists = snap
           /\ snapFile = IF snap
                         THEN snapshot_bytes(TreeOf(put(Blank, <<1>>, <<2>>)))
                         ELSE <<>>
           /\ tmpExists = FALSE
           /\ model = NoMap
           /\ Ghosts0

\* WalWriter::write_put, write_update, write_delete, write_checkpoint
WriteRecord(kind, key, value) ==
    /\ ~alive
    /\ wal_writer_ = "open"
    /\ Len(written) < MaxRecords
    /\ kind = "write_delete" => value = <<>>
    /\ kind = "write_checkpoint" => key = <<>> /\ value = <<>>
    /\ LET S == IF kind = "write_put" THEN write_put(St(NoFault), key, value)
                ELSE IF kind = "write_update"
                THEN write_update(St(NoFault), key, value)
                ELSE IF kind = "write_delete" THEN write_delete(St(NoFault), key)
                ELSE write_checkpoint(St(NoFault))
       IN /\ Install(S)
          /\ written' = IF S.st = "Ok"
                        THEN Append(written, [kind |-> kind, key |-> key,
                                              value |-> value])
                        ELSE written
    /\ call' = [op |-> kind, key |-> key, value |-> value]
    /\ UNCHANGED <<alive, wal_path_, model, durable, pending, dirty, hist,
                   nOps, nFaults, nCrashes>>

\* WalWriter::sync
SyncLog ==
    /\ ~alive
    /\ wal_writer_ = "open"
    /\ call.op \in LogKinds
    /\ Install(sync(St(NoFault)))
    /\ call' = [op |-> "sync"]
    /\ UNCHANGED <<alive, wal_path_, model, durable, pending, dirty, written,
                   hist, nOps, nFaults, nCrashes>>

\* WalWriter::~WalWriter
CloseLog ==
    /\ ~alive
    /\ wal_writer_ = "open"
    /\ Install(WalWriter_dtor(St(NoFault)))
    /\ call' = [op |-> "writer_close"]
    /\ UNCHANGED <<alive, wal_path_, model, durable, pending, dirty, written,
                   hist, nOps, nFaults, nCrashes>>

NextLog ==
    \/ \E kind \in LogKinds : \E key \in LogKeys : \E value \in LogVals :
         WriteRecord(kind, key, value)
    \/ SyncLog
    \/ CloseLog
    \/ wal_writer_ = "null" /\ Open(NoFault)
    \/ RecoverFromWal

\* a WalWriter given up to MaxRecords records, then an engine opened on the
\* file it leaves
SpecLog == InitLog /\ [][NextLog]_vars

\* ------------------------------------------------- a damaged log file
\* byte i of the log file is XORed with 0xFF while nothing has it open
FlipWal(i) ==
    /\ ~alive
    /\ wal_writer_ = "null"
    /\ walExists
    /\ nCrashes < MaxCrashes
    /\ i \in 1..Len(walFile)
    /\ nCrashes' = nCrashes + 1
    /\ walFile' = [walFile EXCEPT ![i] = 255 - @]
    /\ call' = [op |-> "flip", at |-> i]
    /\ status' = "Ok"
    /\ hist' = "flipped"
    /\ UNCHANGED <<alive, root_, nodes, wal_path_, wal_writer_, buffer_,
                   recovering_, operation_count_, checkpoint_interval_,
                   walExists, snapExists, snapFile, tmpExists, appended, ckpt,
                   model, durable, pending, dirty, written, nOps, nFaults>>

\* the bytes that are damaged: one in DamageStride, from the first
DamagePlaces == {i \in 1..Len(walFile) : i % DamageStride = 1}

NextDamaged ==
    \/ \E kind \in {"write_put", "write_update"} : \E key \in Keys :
         WriteRecord(kind, key, <<1>>)
    \/ \E key \in Keys : WriteRecord("write_delete", key, <<>>)
    \/ CloseLog
    \/ \E i \in DamagePlaces : FlipWal(i)
    \/ \E n \in DamagePlaces : wal_writer_ = "null" /\ TruncateWal(n)
    \/ wal_writer_ = "null" /\ Open(NoFault)
    \/ RecoverFromWal

\* a WalWriter given up to MaxRecords records and closed, its file then
\* damaged at most MaxCrashes times (a byte flipped, the tail cut off), and
\* an engine opened on what is left
SpecDamaged == InitLog /\ [][NextDamaged]_vars

\* ------------------------------------------------ automatic checkpoints
AutoIntervals == 0..MaxAutoInterval

\* no engine yet; the caller will construct it with a WAL path or without
InitAuto ==
    \E path \in {"wal", ""} :
        /\ alive = FALSE
        /\ root_ = EmptyTree.root /\ nodes = EmptyTree.nodes
        /\ wal_path_ = path
        /\ wal_writer_ = "null" /\ buffer_ = <<>>
        /\ recovering_ = FALSE
        /\ operation_count_ = 0 /\ checkpoint_interval_ = 10000
        /\ walExists = FALSE /\ walFile = <<>>
        /\ snapExists = FALSE /\ snapFile = <<>>
        /\ tmpExists = FALSE
        /\ model = [k \in (IF path = "" THEN TreeKeys ELSE Keys) |-> nullopt]
        /\ Ghosts0

NextAuto ==
    \/ Open(NoFault)
    \/ \E interval \in AutoIntervals : SetCheckpointInterval(interval)
    \/ \E key \in Keys : \E value \in Vals :
         \E f \in MutationFaults(key, value) : PutOp(key, value, f)
    \/ \E key \in Keys : \E value \in Vals :
         \E f \in MutationFaults(key, value) : UpdateOp(key, value, f)
    \/ \E key \in Keys : \E f \in MutationFaults(key, <<>>) : RemoveOp(key, f)

\* one engine, with or without a WAL path, its checkpoint interval set to
\* 0..MaxAutoInterval or left at its default, the system calls of its
\* automatic checkpoints failing at most MaxFaults times
SpecAuto == InitAuto /\ [][NextAuto]_vars

\* C1: the engine is a map.  After any sequence of put, update and remove,
\* get(k) is what the reference map holds for every key k, and the status of
\* the last call is the reference map's (NotFound exactly for an update or a
\* remove of an absent key).
EngineIsMap ==
    /\ \A k \in AllKeys : get(Tree, k) = model[k]
    /\ call.op \in {"put", "update", "remove"} => status = call.expect

\* a tree of three levels in which key 1 was overwritten and an update has
\* just succeeded
EngineIsMapWitness ==
    /\ wal_path_ = ""
    /\ nodes[root_].type = "Internal"
    /\ nodes[nodes[root_].children[1]].type = "Internal"
    /\ get(Tree, <<1>>) = <<2>>
    /\ call.op = "update" /\ status = "Ok"

Mutations == {"put", "update", "remove"}
TypeOf(op) == IF op = "put" THEN Put ELSE IF op = "update" THEN Update ELSE Delete
IsPrefix(a, b) == Len(a) <= Len(b) /\ SubSeq(b, 1, Len(a)) = a
SnapFaults == {"snap_open", "snap_header", "snap_entry", "snap_fsync", "snap_rename"}

\* C2: a step that changes the tree of an engine whose WAL writer is attached,
\* outside recovery, is a put, update or remove whose record (PUT, UPDATE or
\* DELETE, same key, same value) was accepted by the writer while the tree
\* was still the one before the call.
WalBeforeTree ==
    [][(alive /\ alive' /\ wal_writer_ # "null" /\ call'.op # "recover"
        /\ Tree' # Tree)
       => /\ call'.op \in Mutations
          /\ Len(appended') = 1
          /\ appended'[1].type = TypeOf(call'.op)
          /\ appended'[1].key = call'.key
          /\ appended'[1].value = call'.value
          /\ appended'[1].tree = Tree]_vars

\* an update has replaced a value and its UPDATE record is in the buffer
WalBeforeTreeWitness ==
    /\ call.op = "update" /\ status = "Ok"
    /\ wal_writer_ = "open"
    /\ Len(appended) = 1
    /\ appended[1].type = Update
    /\ get(appended[1].tree, call.key) # call.value
    /\ get(Tree, call.key) = call.value

\* C3: once a mutation of key k that returned Ok has been followed by a
\* successful flush_wal or checkpoint, a crash at any later moment leaves
\* files from which a fresh engine recovers with Ok and with k at the value of
\* its last durable mutation, or at a value written since.
DurableSurvives ==
    \A k \in Keys :
        durable[k] # Unknown =>
            /\ Recovered.st = "Ok"
            /\ Recovered.map[k] \in {durable[k]} \cup pending[k]

\* C4: on fresh paths, after put/update/remove calls and a successful
\* flush_wal of an attached writer, a fresh engine recovers with Ok exactly
\* the mapping of the engine that made the calls.
RecoveryEquivalence ==
    (hist = "fresh" /\ call.op = "flush_wal" /\ status = "Ok"
     /\ wal_writer_ = "open")
    => /\ Recovered.st = "Ok"
       /\ Recovered.map = MapOf(Tree)

\* C5: after a crash inside create_checkpoint, between the rename of the
\* snapshot and the truncation of the WAL, a fresh engine recovers with Ok
\* exactly the mapping the engine held when create_checkpoint was called.
CheckpointCrashRecovers ==
    (call.op = "crash" /\ call.at = "renamed")
    => /\ Recovered.st = "Ok"
       /\ Recovered.map = call.map

\* C6: a step that shortens the WAL file leaves at the snapshot path the
\* complete snapshot of the tree; a create_checkpoint whose snapshot creation
\* fails returns the error and leaves WAL file, writer and buffer as they were.
CheckpointOrder ==
    [][/\ (alive /\ ~IsPrefix(walFile, walFile'))
          => (snapExists' /\ snapFile' = snapshot_bytes(Tree'))
       /\ (call'.op = "create_checkpoint" /\ call'.fault.kind \in SnapFaults)
          => status' = "IOError"
       /\ (call'.op = "create_checkpoint" /\ status' # "Ok")
          => UNCHANGED <<walFile, walExists, wal_writer_, buffer_>>]_vars

\* create_checkpoint has failed on its snapshot with records still buffered
CheckpointOrderWitness ==
    /\ call.op = "create_checkpoint"
    /\ call.fault.kind \in SnapFaults
    /\ status = "IOError"
    /\ wal_writer_ = "open"
    /\ buffer_ # <<>>

\* C7: on fresh paths, after put/update/remove calls among which checkpoints
\* (manual or automatic) were made, and a successful flush_wal of an attached
\* writer, a fresh engine recovers with Ok the mapping of the calls alone.
CheckpointTransparency ==
    (hist = "ckpt" /\ call.op = "flush_wal" /\ status = "Ok"
     /\ wal_writer_ = "open")
    => /\ Recovered.st = "Ok"
       /\ Recovered.map = model

\* C8: recover_from_wal leaves the files as they are; run a second time on
\* the same engine it returns the same status and the same mapping, and run
\* on a fresh engine it returns what any other fresh engine gets from the
\* files.
RecoveryIdempotent ==
    /\ [][call'.op = "recover"
          => /\ UNCHANGED <<walFile, walExists, snapFile, snapExists, tmpExists>>
             /\ call.op = "recover"
                => (status' = status /\ MapOf(Tree') = MapOf(Tree))]_vars
    /\ []((call.op = "recover" /\ call.first)
          => (status = Recovered.st /\ MapOf(Tree) = Recovered.map))

\* recover_from_wal has run twice in a row and found a key
RecoveryIdempotentWitness ==
    /\ call.op = "recover" /\ call.again
    /\ status = "Ok"
    /\ \E k \in Keys : get(Tree, k) # nullopt

\* C9: a put, update or remove whose WAL append fails (the writer's file is
\* not open, or the flush of the full buffer fails) returns IOError and
\* leaves the tree, the operation counter and the snapshot file unchanged.
FailedAppend ==
    [][(/\ call'.op \in Mutations
        /\ wal_writer_ # "null"
        /\ call'.op \in {"update", "remove"} => get(Tree, call'.key) # nullopt
        /\ \/ wal_writer_ = "badfd"
           \/ /\ call'.fault.kind = "wal_write"
              /\ Len(buffer_) + 1 + 4 + Len(call'.key) + 4 + Len(call'.value) + 4
                   > BUFFER_SIZE)
       => /\ status' = "IOError"
          /\ Tree' = Tree
          /\ operation_count_' = operation_count_
          /\ UNCHANGED <<snapExists, snapFile>>]_vars

\* a put has failed on the flush of the full buffer
FailedAppendWitness ==
    /\ call.op = "put"
    /\ call.fault.kind = "wal_write"
    /\ status = "IOError"
    /\ get(Tree, call.key) # call.value

\* C10: update and remove of an absent key return NotFound, leave the tree
\* unchanged and hand no record to the WAL writer.
AbsentKey ==
    [][(call'.op \in {"update", "remove"} /\ get(Tree, call'.key) = nullopt)
       => /\ status' = "NotFound"
          /\ Tree' = Tree
          /\ appended' = <<>>
          /\ UNCHANGED <<buffer_, walFile>>]_vars

\* a remove of an absent key has returned NotFound on an engine that holds
\* another key and has an open WAL writer
AbsentKeyWitness ==
    /\ call.op = "remove" /\ status = "NotFound"
    /\ wal_writer_ = "open"
    /\ \E k \in Keys : get(Tree, k) # nullopt

\* ----------------------------------------------------- shape of the tree
Leaves(T) == {n \in DOMAIN T.nodes : T.nodes[n].type = "Leaf"}
Internals(T) == {n \in DOMAIN T.nodes : T.nodes[n].type # "Leaf"}
StrictlyIncreasing(keys) ==
    \A i \in 1..Len(keys) : \A j \in 1..Len(keys) :
        i < j => KeyLess(keys[i], keys[j])

\* the keys of the leaves below (or at) node id
RECURSIVE SubtreeKeys(_, _)
SubtreeKeys(T, id) ==
    IF T.nodes[id].type = "Leaf"
    THEN {T.nodes[id].keys[i] : i \in 1..Len(T.nodes[id].keys)}
    ELSE UNION {SubtreeKeys(T, T.nodes[id].children[c]) :
                  c \in 1..Len(T.nodes[id].children)}

\* the depths at which the leaves below (or at) node id sit, id being at d
RECURSIVE LeafDepths(_, _, _)
LeafDepths(T, id, d) ==
    IF T.nodes[id].type = "Leaf" THEN {d}
    ELSE UNION {LeafDepths(T, T.nodes[id].children[c], d + 1) :
                  c \in 1..Len(T.nodes[id].children)}

\* the leaves met by following next from leaf, at most fuel of them
RECURSIVE ChainFrom(_, _, _)
ChainFrom(T, leaf, fuel) ==
    IF leaf = NULL \/ fuel = 0 \/ leaf \notin DOMAIN T.nodes THEN <<>>
    ELSE <<leaf>> \o ChainFrom(T, T.nodes[leaf].next, fuel - 1)

\* a put, update or remove has just returned on a tree of three levels
DeepTreeAfter(op) ==
    /\ call.op = op /\ status = "Ok"
    /\ nodes[root_].type = "Internal"
    /\ nodes[nodes[root_].children[1]].type = "Internal"

\* C12: after any sequence of public operations the keys of every leaf are
\* strictly increasing and no key is held at two places of the leaves.
LeafKeysUnique ==
    /\ \A n \in Leaves(Tree) : StrictlyIncreasing(nodes[n].keys)
    /\ \A n \in Leaves(Tree) : \A m \in Leaves(Tree) :
         \A i \in 1..Len(nodes[n].keys) : \A j \in 1..Len(nodes[m].keys) :
            nodes[n].keys[i] = nodes[m].keys[j] => (n = m /\ i = j)

\* a put has returned on a tree of three levels with at least four leaves
LeafKeysUniqueWitness ==
    /\ DeepTreeAfter("put")
    /\ Cardinality(Leaves(Tree)) >= 4

\* C13: in every internal node the separators are strictly increasing, there
\* is one child more than separators, every key under child i is smaller than
\* separator i and not smaller than separator i-1, and so the descent of get
\* ends in the leaf that holds the key.
SeparatorsOrdered ==
    /\ \A n \in Internals(Tree) :
         /\ StrictlyIncreasing(nodes[n].keys)
         /\ Len(nodes[n].children) = Len(nodes[n].keys) + 1
         /\ \A c \in 1..Len(nodes[n].children) :
              \A k \in SubtreeKeys(Tree, nodes[n].children[c]) :
                 /\ c <= Len(nodes[n].keys) => KeyLess(k, nodes[n].keys[c])
                 /\ c > 1 => ~KeyLess(k, nodes[n].keys[c - 1])
    /\ \A n \in Leaves(Tree) : \A i \in 1..Len(nodes[n].keys) :
         find_leaf(Tree, nodes[n].keys[i]) = n

\* a remove has returned on a tree of three levels
SeparatorsOrderedWitness ==
    /\ DeepTreeAfter("remove")
    /\ Len(nodes[root_].keys) >= 1

\* C14: every leaf is at the same depth from the root.
LeavesSameDepth ==
    Cardinality(LeafDepths(Tree, root_, 0)) = 1

\* a remove has returned on a tree whose leaves are all two levels below the
\* root
LeavesSameDepthWitness ==
    /\ DeepTreeAfter("remove")
    /\ LeafDepths(Tree, root_, 0) = {2}

\* C15: every node but the root holds at least get_min_keys keys and fewer
\* than max_degree_ keys.
NodeOccupancy ==
    \A n \in DOMAIN nodes :
        n # root_ => /\ Len(nodes[n].keys) >= get_min_keys
                     /\ Len(nodes[n].keys) < max_degree_

\* C16: following next from the leftmost leaf visits every leaf once, in
\* ascending key order; the leftmost leaf has no prev, and the prev of the
\* next of a leaf is that leaf.
LeafChainLinked ==
    LET chain == ChainFrom(Tree, find_leftmost_leaf(Tree),
                           Cardinality(DOMAIN nodes) + 1)
    IN /\ Len(chain) = Cardinality(Leaves(Tree))
       /\ {chain[i] : i \in 1..Len(chain)} = Leaves(Tree)
       /\ \A i \in 1..Len(chain) : \A j \in 1..Len(chain) :
            i < j => \A a \in 1..Len(nodes[chain[i]].keys) :
                       \A b \in 1..Len(nodes[chain[j]].keys) :
                          KeyLess(nodes[chain[i]].keys[a], nodes[chain[j]].keys[b])
       /\ nodes[find_leftmost_leaf(Tree)].prev = NULL
       /\ \A n \in Leaves(Tree) :
            nodes[n].next # NULL
              => /\ nodes[n].next \in Leaves(Tree)
                 /\ nodes[nodes[n].next].prev = n

\* a remove has returned on a tree of three levels with at least three leaves
LeafChainLinkedWitness ==
    /\ DeepTreeAfter("remove")
    /\ Cardinality(Leaves(Tree)) >= 3

\* C17: the parent reference of every node but the root designates the
\* internal node that lists it among its children, which lists it once; the
\* parent reference of the root is null.
ParentsOwn ==
    /\ nodes[root_].parent = NULL
    /\ \A n \in DOMAIN nodes : n # root_ =>
         /\ nodes[n].parent \in Internals(Tree)
         /\ Cardinality({c \in 1..Len(nodes[nodes[n].parent].children) :
                           nodes[nodes[n].parent].children[c] = n}) = 1
         /\ \A p \in Internals(Tree) :
              (\E c \in 1..Len(nodes[p].children) : nodes[p].children[c] = n)
                => p = nodes[n].parent

\* a put has returned on a tree of three levels
ParentsOwnWitness ==
    /\ DeepTreeAfter("put")
    /\ \E n \in Internals(Tree) : n # root_ /\ nodes[n].parent = root_

\* C18: iterate_all hands the callback every pair of the map once, no other
\* pair, in strictly ascending key order.
IterateAllIsMap ==
    LET pairs == iterate_all(Tree)
    IN /\ StrictlyIncreasing([i \in 1..Len(pairs) |-> pairs[i][1]])
       /\ {pairs[i] : i \in 1..Len(pairs)}
            = {<<k, model[k]>> : k \in {x \in AllKeys : model[x] # nullopt}}

\* an update has returned on a tree of three levels and iterate_all reports
\* the new value
IterateAllIsMapWitness ==
    /\ DeepTreeAfter("update")
    /\ \E i \in 1..Len(iterate_all(Tree)) : iterate_all(Tree)[i] = <<<<1>>, <<2>>>>

\* C11: put of a key longer than MAX_KEY_SIZE or of a value longer than
\* MAX_VALUE_SIZE returns InvalidArgument and leaves the tree unchanged,
\* whether the WAL writer is attached, no WAL path is configured or the WAL
\* failed to open; a key and a value of exactly the maximum sizes are accepted.
SizeLimits ==
    [][call'.op = "put_sized"
       => IF Len(call'.key) > MAX_KEY_SIZE \/ Len(call'.value) > MAX_VALUE_SIZE
          THEN status' = "InvalidArgument" /\ Tree' = Tree
          ELSE status' = "Ok" /\ get(Tree', call'.key) = call'.value]_vars

\* the same, of the engines whose WAL writer is attached
SizeLimitsWithWal ==
    [][(call'.op = "put_sized" /\ wal_writer_ = "open")
       => IF Len(call'.key) > MAX_KEY_SIZE \/ Len(call'.value) > MAX_VALUE_SIZE
          THEN status' = "InvalidArgument" /\ Tree' = Tree
          ELSE status' = "Ok" /\ get(Tree', call'.key) = call'.value]_vars

\* the offsets of a log file at which a record ends, from the lengths its
\* records carry (type, key length, key, value length, value, CRC)
RECURSIVE RecordEndsFrom(_, _)
RecordEndsFrom(file, pos) ==
    IF Len(file) - pos < 5 THEN {pos}
    ELSE LET klen == read_le32(SubSeq(file, pos + 2, pos + 5))
         IN IF klen > Len(file) \/ Len(file) - pos < 9 + klen THEN {pos}
            ELSE LET vlen == read_le32(SubSeq(file, pos + 6 + klen, pos + 9 + klen))
                 IN IF vlen > Len(file) \/ Len(file) - pos < 13 + klen + vlen
                    THEN {pos}
                    ELSE {pos} \cup RecordEndsFrom(file, pos + 13 + klen + vlen)

RecordEnds(file) == RecordEndsFrom(file, 0)

\* the outcome of reading a log file record by record until read_next fails
RECURSIVE EndOfLog(_, _)
EndOfLog(file, pos) ==
    LET r == read_next(file, pos)
    IN IF r.st = "Ok" THEN EndOfLog(file, r.pos) ELSE r.st

\* C19: the reader reports the clean end of the log only when the file ends
\* exactly on a record boundary; a file that ends one or more bytes into a
\* record reads as Corruption, and recover_from_wal returns that Corruption.
TornTailIsCorruption ==
    /\ [](walExists /\ EndOfLog(walFile, 0) = "NotFound"
           => Len(walFile) \in RecordEnds(walFile))
    /\ [](walExists /\ Len(walFile) \notin RecordEnds(walFile)
           => EndOfLog(walFile, 0) = "Corruption")
    /\ [][call'.op = "recover" /\ call'.first
           /\ Len(walFile) \notin RecordEnds(walFile)
           => status' = "Corruption"]_vars

\* the first recovery of a run found a log whose last record is cut short,
\* after at least one whole record
TornTailIsCorruptionWitness ==
    /\ call.op = "recover"
    /\ call.first
    /\ status = "Corruption"
    /\ Len(walFile) \notin RecordEnds(walFile)
    /\ Cardinality(RecordEnds(walFile)) > 1

\* C20: recovery does not silently lose a tail.  Whatever shorter length a
\* log written by the engine is truncated to, on a record boundary or not,
\* recover_from_wal returns Corruption rather than Ok with fewer records.
TruncationIsCorruption ==
    [][call'.op = "recover" /\ call'.first /\ hist = "truncated"
       => status' = "Corruption"]_vars

\* C21: a snapshot file that exists and fails validation (wrong magic, wrong
\* version, header or entry CRC mismatch, a file cut short anywhere, the
\* 16-byte header included) makes recover_from_wal return Corruption, and
\* the WAL is not replayed: the tree is what the snapshot load left.
DamagedSnapshotIsCorruption ==
    [][call'.op = "recover" /\ call'.first
       /\ hist \in {"snapshot_cut", "snapshot_flipped"}
       => /\ status' = "Corruption"
          /\ Tree' = Canon(TreeOf(recover_snapshot(
                                     [St(NoFault) EXCEPT !.recovering_ = TRUE])))]_vars

\* the same for the snapshots that keep their length: a flipped byte in any
\* field is reported as Corruption
FlippedSnapshotIsCorruption ==
    [][call'.op = "recover" /\ call'.first /\ hist = "snapshot_flipped"
       => status' = "Corruption"]_vars

\* and for the snapshots cut short after the header
CutEntriesIsCorruption ==
    [][call'.op = "recover" /\ call'.first /\ hist = "snapshot_cut"
       /\ Len(snapFile) >= 16
       => status' = "Corruption"]_vars

\* the calls that Btree counts when they return Ok: an update, a put of a
\* new key, a remove that leaves a key in the tree
CountedCall ==
    \/ call'.op = "update"
    \/ call'.op = "put" /\ Len(iterate_all(Tree')) > Len(iterate_all(Tree))
    \/ call'.op = "remove" /\ iterate_all(Tree') # <<>>

RecoveryWritesNothing ==
    [][call'.op = "recover"
       => /\ appended' = <<>>
          /\ ckpt' = <<>>
          /\ operation_count_' = operation_count_
          /\ buffer_' = buffer_
          /\ walExists' = walExists /\ walFile' = walFile
          /\ snapExists' = snapExists /\ snapFile' = snapFile
          /\ tmpExists' = tmpExists]_vars

\* a recovery with checkpoint interval 1 has loaded a snapshot and replayed
\* a WAL of two records or more
RecoveryWritesNothingWitness ==
    /\ call.op = "recover"
    /\ status = "Ok"
    /\ checkpoint_interval_ = 1
    /\ snapExists
    /\ Cardinality(RecordEnds(walFile)) > 2
    /\ iterate_all(Tree) # <<>>

\* the records a WalReader returns from a file, and the status that ends
\* the reading
RECURSIVE ReadAll(_, _)
ReadAll(file, pos) ==
    LET r == read_next(file, pos)
    IN IF r.st # "Ok" THEN [records |-> <<>>, st |-> r.st]
       ELSE LET rest == ReadAll(file, r.pos)
            IN [records |-> <<[type |-> r.type, key |-> r.key,
                               value |-> r.value]>> \o rest.records,
                st |-> rest.st]

\* the type tag of the record each WalWriter call appends
TagOf(kind) ==
    IF kind = "write_put" THEN Put
    ELSE IF kind = "write_update" THEN Update
    ELSE IF kind = "write_delete" THEN Delete
    ELSE Checkpoint

\* a mapping of the keys a WalWriter is given, and the tree's
LogMapOf(T) == [k \in LogKeys |-> get(T, k)]

\* the lenient replay of records over a mapping: PUT and UPDATE store the
\* value, DELETE removes the key, a checkpoint record does nothing
RECURSIVE Lenient(_, _)
Lenient(map, records) ==
    IF records = <<>> THEN map
    ELSE LET r == Head(records)
         IN Lenient(IF r.kind \in {"write_put", "write_update"}
                    THEN [map EXCEPT ![r.key] = r.value]
                    ELSE IF r.kind = "write_delete"
                    THEN [map EXCEPT ![r.key] = nullopt]
                    ELSE map,
                    Tail(records))

\* the mapping the snapshot alone gives a fresh engine
SnapshotMap ==
    LogMapOf(TreeOf(recover_snapshot([St(NoFault) EXCEPT !.recovering_ = TRUE])))

HasCheckpointRecord ==
    \E i \in 1..Len(written) : written[i].kind = "write_checkpoint"

\* C24: WAL replay applies the records in file order over the tree the
\* snapshot gave, leniently: PUT inserts or overwrites, UPDATE overwrites
\* and inserts an absent key, DELETE removes and skips an absent key; no
\* such record makes recover_from_wal fail.
LenientReplay ==
    [][call'.op = "recover" /\ call'.first /\ ~HasCheckpointRecord
       => /\ status' = "Ok"
          /\ LogMapOf(Tree') = Lenient(SnapshotMap, written)]_vars

\* a recovery has replayed an UPDATE of a key that was absent and a DELETE
\* of a key that was absent
LenientReplayWitness ==
    /\ call.op = "recover" /\ call.first
    /\ status = "Ok"
    /\ ~snapExists
    /\ Len(written) = 3
    /\ written[1].kind = "write_delete"
    /\ written[2].kind = "write_update"
    /\ written[3].kind = "write_put" /\ written[3].key = written[2].key
    /\ written[3].value # written[2].value

\* C25: a record appended by write_checkpoint carries a tag of its own
\* (CHECKPOINT = 4, distinct from PUT, DELETE and UPDATE), and replaying a
\* WAL that holds such records gives the mapping of the same WAL without
\* them.
CheckpointRecordsInert ==
    /\ [][call'.op = "write_checkpoint" /\ status' = "Ok"
           => appended'[1].type \notin {Put, Delete, Update}]_vars
    /\ [][call'.op = "recover" /\ call'.first
           => /\ status' = "Ok"
              /\ LogMapOf(Tree') = Lenient(SnapshotMap, written)]_vars

\* the replay half of C25 alone
CheckpointRecordsSkipped ==
    [][call'.op = "recover" /\ call'.first
       => /\ status' = "Ok"
          /\ LogMapOf(Tree') = Lenient(SnapshotMap, written)]_vars

\* C28: after any sequence of write_put, write_update, write_delete and
\* write_checkpoint calls within the size limits and a successful sync, a
\* WalReader on the file returns exactly those records, in order, with the
\* same type, key and value, and then reports the end of the log.
WalRoundTrip ==
    call.op = "sync" /\ status = "Ok"
    => ReadAll(walFile, 0) =
         [records |-> [i \in 1..Len(written) |->
                         [type |-> TagOf(written[i].kind),
                          key |-> written[i].key,
                          value |-> written[i].value]],
          st |-> "NotFound"]

\* three records of three kinds, one with an empty key and one with an
\* empty value, have been synced, the first of them by the flush of a full
\* buffer
WalRoundTripWitness ==
    /\ call.op = "sync" /\ status = "Ok"
    /\ Len(written) = 3
    /\ Cardinality({written[i].kind : i \in 1..3}) = 3
    /\ \E i \in 1..3 : written[i].kind = "write_put" /\ written[i].key = <<>>
    /\ \E i \in 1..3 : written[i].kind = "write_update" /\ written[i].value = <<>>
    /\ Len(walFile) > BUFFER_SIZE

\* C26: outside recovery every put, update or remove that returns Ok adds
\* exactly one to the operation counter (a put that overwrites a key and a
\* remove that empties the tree included); a checkpoint is attempted exactly
\* when the interval is positive and the counter becomes a multiple of it,
\* and never when the interval is 0.
EveryMutationCounted ==
    [][call'.op \in Mutations /\ status' = "Ok"
       => /\ operation_count_' = operation_count_ + 1
          /\ ckpt' # <<>> <=> /\ checkpoint_interval_ > 0
                              /\ operation_count_' % checkpoint_interval_ = 0]_vars

\* the same for the calls Btree counts, the others leaving the counter alone
\* and attempting no checkpoint
CountedMutationCounted ==
    [][call'.op \in Mutations /\ status' = "Ok"
       => IF CountedCall
          THEN /\ operation_count_' = operation_count_ + 1
               /\ ckpt' # <<>> <=> /\ checkpoint_interval_ > 0
                                   /\ operation_count_' % checkpoint_interval_ = 0
          ELSE /\ operation_count_' = operation_count_
               /\ ckpt' = <<>>]_vars

\* C27: when the create_checkpoint an operation triggered fails (the
\* snapshot cannot be written, or the engine has no WAL path and so no
\* snapshotter), the put, update or remove still returns Ok with its
\* mutation applied and counted, and later operations are counted as well.
FailedAutoCheckpoint ==
    /\ [][call'.op \in Mutations /\ ckpt' # <<>> /\ ~SomeOk(ckpt')
           => /\ status' = "Ok"
              /\ MapOf(Tree') = model'
              /\ operation_count_' = operation_count_ + 1]_vars
    /\ [][call.op \in Mutations /\ ckpt # <<>> /\ ~SomeOk(ckpt)
           /\ call'.op \in Mutations /\ status' = "Ok" /\ CountedCall
           => operation_count_' = operation_count_ + 1]_vars

\* on an engine without a WAL path and with interval 1, a second operation
\* has been counted and has triggered a checkpoint that failed, as the
\* first did
FailedAutoCheckpointWitness ==
    /\ call.op \in Mutations
    /\ status = "Ok"
    /\ wal_path_ = ""
    /\ checkpoint_interval_ = 1
    /\ operation_count_ = 2
    /\ ckpt = <<"InvalidArgument">>

\* a file that load_snapshot reads to its end and that is the snapshot of
\* the tree it gives
CompleteSnapshot(file) ==
    LET L == load_snapshot([Blank EXCEPT !.snapExists = TRUE, !.snapFile = file,
                                         !.recovering_ = TRUE])
    IN L.st = "Ok" /\ snapshot_bytes(TreeOf(L)) = file

\* C29: whatever happens to create_snapshot (success, an I/O error at any
\* step, a kill), the file at the snapshot path is afterwards what it was
\* before (absent, or the previous snapshot) or the complete snapshot of the
\* tree; a partly written snapshot is never at the snapshot path.
SnapshotAtomic ==
    [][call'.op \in Mutations \cup {"create_checkpoint", "crash"}
       => \/ snapExists' = snapExists /\ snapFile' = snapFile
          \/ /\ snapExists'
             /\ snapFile' \in {snapshot_bytes(Tree), snapshot_bytes(Tree')}
             /\ CompleteSnapshot(snapFile')]_vars

\* a checkpoint has failed with an I/O error while an older snapshot, of
\* another tree, was in place, and that snapshot is still there, complete
SnapshotAtomicWitness ==
    /\ call.op = "create_checkpoint"
    /\ call.fault.kind \in {"snap_header", "snap_entry", "snap_fsync", "snap_rename"}
    /\ status = "IOError"
    /\ snapExists
    /\ snapFile # snapshot_bytes(Tree)
    /\ CompleteSnapshot(snapFile)

\* C30: when create_snapshot returns an error after the temp file was
\* opened (a failed write of the header or of an entry, a failed fsync, a
\* failed rename), the temp file has been unlinked.
FailedSnapshotUnlinksTemp ==
    [][call'.op = "create_checkpoint" /\ status' = "IOError"
       /\ call'.fault.kind \in {"snap_header", "snap_entry", "snap_fsync",
                                "snap_rename"}
       => ~tmpExists']_vars

\* the same for the failures that follow the header
LateFailureUnlinksTemp ==
    [][call'.op = "create_checkpoint" /\ status' = "IOError"
       /\ call'.fault.kind \in {"snap_entry", "snap_fsync", "snap_rename"}
       => ~tmpExists']_vars

\* the engine after the pairs of map m with keys <<1>> .. <<i>> were put in
\* descending key order
RECURSIVE PutDescending(_, _, _)
PutDescending(S, m, i) ==
    IF i = 0 THEN S
    ELSE PutDescending(IF m[<<i>>] = nullopt THEN S ELSE put(S, <<i>>, m[<<i>>]),
                       m, i - 1)

\* the tree that holds the mapping of the present tree and was built by puts
\* in descending key order
Redone == TreeOf(PutDescending(Btree_ctor(Blank, ""), MapOf(Tree), NumTreeKeys))

\* a fresh engine that recovers from the snapshot of tree T and an empty WAL
LoadedFrom(T) ==
    recover_from_wal(Btree_ctor([Blank EXCEPT !.snapExists = TRUE,
                                              !.snapFile = snapshot_bytes(T)],
                                "wal"))

\* C31: a snapshot depends only on the mapping.  The tree reached by the
\* calls made so far and the tree built from the same pairs by puts in
\* descending key order produce the same snapshot bytes, and a fresh engine
\* that loads the snapshot of the present tree holds exactly its mapping.
SnapshotOfMapping ==
    LET loaded == LoadedFrom(Tree)
    IN /\ snapshot_bytes(Redone) = snapshot_bytes(Tree)
       /\ loaded.st = "Ok"
       /\ MapOf(TreeOf(loaded)) = MapOf(Tree)

\* a remove has returned on a tree of three levels whose nodes differ from
\* those of the tree built in descending order, and the snapshot was loaded
\* into a tree that is shaped differently again
SnapshotOfMappingWitness ==
    /\ DeepTreeAfter("remove")
    /\ Canon(Redone) # Tree
    /\ Canon(TreeOf(LoadedFrom(Tree))) # Tree
    /\ MapOf(TreeOf(LoadedFrom(Tree))) = MapOf(Tree)

\* C32: when recover_from_wal meets a corrupt or partial record it returns
\* the reader's error as it is, and the tree holds the snapshot's pairs with
\* the records that precede the bad record applied in order: none of the
\* records written after it.
StopsAtBadRecord ==
    [][call'.op = "recover" /\ call'.first
       /\ hist \in {"flipped", "truncated"}
       /\ ReadAll(walFile, 0).st # "NotFound"
       => LET read == ReadAll(walFile, 0)
              n == Len(read.records)
          IN /\ status' = read.st
             /\ status' = "Corruption"
             /\ n < Len(written)
             /\ \A i \in 1..n :
                  /\ read.records[i].type = TagOf(written[i].kind)
                  /\ read.records[i].key = written[i].key
                  /\ read.records[i].value = written[i].value
             /\ LogMapOf(Tree') = Lenient(SnapshotMap, SubSeq(written, 1, n))]_vars

\* a recovery over a snapshot has stopped at the second of three records, a
\* flipped one: the tree has the first record's effect, which is neither
\* the snapshot's mapping nor the mapping of the three records
StopsAtBadRecordWitness ==
    /\ call.op = "recover" /\ call.first
    /\ status = "Corruption"
    /\ snapExists
    /\ Len(written) = 3
    /\ Cardinality(RecordEnds(walFile)) = 4
    /\ Len(ReadAll(walFile, 0).records) = 1
    /\ LogMapOf(Tree) # SnapshotMap
    /\ LogMapOf(Tree) # Lenient(SnapshotMap, written)

\* the mappings an engine that started empty held after each prefix of the
\* mutations whose records are given, in order
RECURSIVE MapsAlong(_, _)
MapsAlong(map, records) ==
    IF records = <<>> THEN {map}
    ELSE LET r == Head(records)
         IN {map} \cup MapsAlong(IF r.type = Delete
                                 THEN [map EXCEPT ![r.key] = nullopt]
                                 ELSE [map EXCEPT ![r.key] = r.value],
                                 Tail(records))

\* on fresh paths and before any checkpoint, the successful mutations of
\* the engine are the records of its WAL, file then buffer (C2)
PrefixMaps == MapsAlong(NoMap, ReadAll(walFile \o buffer_, 0).records)

\* what a fresh engine recovers from the given files
RecoveredFrom(wal_exists, wal_file, snap_exists, snap_file) ==
    LET R == recover_from_wal(Btree_ctor([Blank EXCEPT
                                            !.walExists = wal_exists,
                                            !.walFile = wal_file,
                                            !.snapExists = snap_exists,
                                            !.snapFile = snap_file],
                                         "wal"))
    IN [st |-> R.st, map |-> MapOf(TreeOf(R))]

\* C33: after a crash at any point (between two calls, inside a flush of
\* the WAL buffer, inside create_checkpoint) a fresh engine that runs
\* recover_from_wal holds the mapping the crashed engine held after some
\* prefix of its successful mutations, never a mixture of values that no
\* point of the execution produced.  Stated for the first engine on fresh
\* paths, up to its first checkpoint.
CrashRecoversPrefix ==
    [][call'.op = "crash" /\ hist = "fresh"
       => RecoveredFrom(walExists', walFile', snapExists', snapFile').map
            \in PrefixMaps]_vars

\* C33 for the crashes that do not fall between the rename of the snapshot
\* and the truncation of the WAL
CrashBeforeRenameRecoversPrefix ==
    [][call'.op = "crash" /\ call'.at # "renamed" /\ hist = "fresh"
       => RecoveredFrom(walExists', walFile', snapExists', snapFile').map
            \in PrefixMaps]_vars

\* the leaves of a tree from left to right, and the parents of its leaves
\* from left to right, found by descent from the root
RECURSIVE LeafRow(_, _), LeafRowKids(_, _)
LeafRow(T, id) ==
    IF T.nodes[id].type = "Leaf" THEN <<id>>
    ELSE LeafRowKids(T, T.nodes[id].children)
LeafRowKids(T, kids) ==
    IF kids = <<>> THEN <<>>
    ELSE LeafRow(T, kids[1]) \o LeafRowKids(T, Tail(kids))

RECURSIVE ParentRow(_, _), ParentRowKids(_, _)
ParentRow(T, id) ==
    IF T.nodes[id].type = "Leaf" THEN <<>>
    ELSE IF T.nodes[T.nodes[id].children[1]].type = "Leaf" THEN <<id>>
    ELSE ParentRowKids(T, T.nodes[id].children)
ParentRowKids(T, kids) ==
    IF kids = <<>> THEN <<>>
    ELSE ParentRow(T, kids[1]) \o ParentRowKids(T, Tail(kids))

\* the keys of the leaves from left to right, and the numbers of children of
\* the leaves' parents from left to right
LeafKeysRow(T) ==
    LET row == LeafRow(T, T.root)
    IN [n \in 1..Len(row) |-> T.nodes[row[n]].keys]
ChildCountsRow(T) ==
    LET row == ParentRow(T, T.root)
    IN [n \in 1..Len(row) |-> Len(T.nodes[row[n]].children)]

PlaceIn(row, x) == CHOOSE n \in 1..Len(row) : row[n] = x

\* what the stated order makes of node x, which holds `have` keys after the
\* removal, among its siblings: "borrow_right", "borrow_left", "merge_left"
\* or "merge_right"
StatedChoice(T, x) ==
    LET P == T.nodes[T.nodes[x].parent]
        i == PlaceIn(P.children, x)
    IN IF i < Len(P.children)
          /\ Len(T.nodes[P.children[i + 1]].keys) > get_min_keys
       THEN "borrow_right"
       ELSE IF i > 1 /\ Len(T.nodes[P.children[i - 1]].keys) > get_min_keys
       THEN "borrow_left"
       ELSE IF i > 1 THEN "merge_left"
       ELSE "merge_right"

\* removing key k leaves its leaf, which is not the root, below min_keys
LeafUnderflows(T, k) ==
    /\ find_leaf(T, k) # T.root
    /\ Len(T.nodes[find_leaf(T, k)].keys) - 1 < get_min_keys

\* the keys of the leaves, left to right, that the stated order gives after
\* key k was removed from a leaf that underflows
StatedLeaves(T, k) ==
    LET leaf == find_leaf(T, k)
        rest == SelectSeq(T.nodes[leaf].keys, LAMBDA x : x # k)
        row == LeafRow(T, T.root)
        j == PlaceIn(row, leaf)
        at(n) == T.nodes[row[n]].keys
        choice == StatedChoice(T, leaf)
        made == [n \in 1..Len(row) |->
                   IF choice = "borrow_right"
                   THEN IF n = j THEN Append(rest, at(j + 1)[1])
                        ELSE IF n = j + 1 THEN Tail(at(n)) ELSE at(n)
                   ELSE IF choice = "borrow_left"
                   THEN IF n = j THEN <<at(j - 1)[Len(at(j - 1))]>> \o rest
                        ELSE IF n = j - 1 THEN Front(at(n)) ELSE at(n)
                   ELSE IF choice = "merge_left"
                   THEN IF n = j THEN <<>>
                        ELSE IF n = j - 1 THEN at(n) \o rest ELSE at(n)
                   ELSE IF n = j THEN rest \o at(j + 1)
                        ELSE IF n = j + 1 THEN <<>> ELSE at(n)]
    IN SelectSeq(made, LAMBDA x : x # <<>>)

\* removing key k merges its leaf with a sibling
LeafMerges(T, k) ==
    /\ LeafUnderflows(T, k)
    /\ StatedChoice(T, find_leaf(T, k)) \in {"merge_left", "merge_right"}

\* the numbers of children of the leaves' parents, left to right, that the
\* stated order gives after the leaf of key k was merged with a sibling
StatedChildCounts(T, k) ==
    LET parent == T.nodes[find_leaf(T, k)].parent
        row == ParentRow(T, T.root)
        q == PlaceIn(row, parent)
        at(n) == Len(T.nodes[row[n]].children) - (IF n = q THEN 1 ELSE 0)
        choice == IF parent # T.root /\ at(q) - 1 < get_min_keys
                  THEN StatedChoice(T, parent)
                  ELSE "none"
        made == [n \in 1..Len(row) |->
                   IF choice = "borrow_right"
                   THEN IF n = q THEN at(n) + 1
                        ELSE IF n = q + 1 THEN at(n) - 1 ELSE at(n)
                   ELSE IF choice = "borrow_left"
                   THEN IF n = q THEN at(n) + 1
                        ELSE IF n = q - 1 THEN at(n) - 1 ELSE at(n)
                   ELSE IF choice = "merge_left"
                   THEN IF n = q THEN 0
                        ELSE IF n = q - 1 THEN at(n) + at(q) ELSE at(n)
                   ELSE IF choice = "merge_right"
                   THEN IF n = q THEN at(n) + at(q + 1)
                        ELSE IF n = q + 1 THEN 0 ELSE at(n)
                   ELSE at(n)]
    IN SelectSeq(made, LAMBDA c : c > 1)

\* the key the remove that has just returned took out of the tree
Removed == CHOOSE k \in TreeKeys : model[k] # nullopt /\ model'[k] = nullopt

\* C34: a leaf or an internal node that is not the root and falls below
\* min_keys borrows from its right sibling if that one has more than
\* min_keys keys, else from its left sibling if that one has, else merges
\* into its left sibling if it has one, else with its right sibling; after
\* a merge the parent is handled the same way if it is not the root and is
\* below min_keys, and is left alone otherwise.
RebalanceOrder ==
    [][call'.op = "remove" /\ status' = "Ok" /\ LeafUnderflows(Tree, Removed)
       => /\ LeafKeysRow([root |-> root_', nodes |-> nodes'])
               = StatedLeaves(Tree, Removed)
          /\ LeafMerges(Tree, Removed)
               => ChildCountsRow([root |-> root_', nodes |-> nodes'])
                    = StatedChildCounts(Tree, Removed)]_vars

\* the first call on a tree built by puts was a remove, and it left an
\* internal node with max_degree_ keys, which no put leaves: the leaf of the
\* key was merged, its parent fell below min_keys and was merged with a
\* sibling in turn
RebalanceOrderWitness ==
    /\ call.op = "remove" /\ status = "Ok"
    /\ nOps = 1
    /\ \E n \in DOMAIN nodes :
         /\ nodes[n].type = "Internal"
         /\ Len(nodes[n].keys) >= max_degree_

\* C35: after any completed remove the root is not an internal node without
\* separators: a root that the merges left with no separator and one child
\* has given way to that child, whose parent reference is null; when the
\* last key has been removed the tree is a single empty leaf, and a put on
\* it succeeds.
RootCollapse ==
    /\ [](/\ ~(nodes[root_].type = "Internal" /\ nodes[root_].keys = <<>>)
          /\ nodes[root_].parent = NULL
          /\ (\A k \in TreeKeys : model[k] = nullopt)
               => /\ nodes[root_].type = "Leaf"
                  /\ nodes[root_].keys = <<>>
                  /\ DOMAIN nodes = {root_})
    /\ [][call'.op = "put" /\ call.op = "remove"
           /\ (\A k \in TreeKeys : model[k] = nullopt)
           => /\ status' = "Ok"
              /\ Len(iterate_all([root |-> root_', nodes |-> nodes'])) = 1
              /\ \E k \in TreeKeys :
                   /\ model'[k] # nullopt
                   /\ get([root |-> root_', nodes |-> nodes'], k) = model'[k]]_vars

\* the first call on a tree of four keys in two leaves was a remove: the two
\* leaves were merged and the merged leaf, with three keys, is the root
RootCollapseWitness ==
    /\ call.op = "remove" /\ status = "Ok"
    /\ nOps = 1
    /\ nodes[root_].type = "Leaf"
    /\ Len(nodes[root_].keys) = 3
    /\ nodes[root_].parent = NULL

\* the key the put that has just returned added to the tree
Inserted == CHOOSE k \in TreeKeys : model[k] = nullopt /\ model'[k] # nullopt

\* a put of a new key brings its leaf to max_degree_ keys
SplitStep ==
    /\ call'.op = "put" /\ status' = "Ok"
    /\ \E k \in TreeKeys : model[k] = nullopt /\ model'[k] # nullopt
    /\ Len(nodes[find_leaf(Tree, Inserted)].keys) + 1 = max_degree_

\* the leaf was split at split_idx (counted from 0): it keeps the keys below
\* split_idx, a new leaf just right of it in the tree and in the chain takes
\* the others, and the first key of the new leaf is a separator of an
\* internal node
SplitResult(split_idx) ==
    LET leaf == find_leaf(Tree, Inserted)
        all == leaf_insert(nodes[leaf], Inserted, model'[Inserted]).keys
        j == PlaceIn(LeafRow(Tree, root_), leaf)
        T2 == [root |-> root_', nodes |-> nodes']
        row2 == LeafRow(T2, T2.root)
    IN /\ Len(row2) = Len(LeafRow(Tree, root_)) + 1
       /\ T2.nodes[row2[j]].keys = SubSeq(all, 1, split_idx)
       /\ T2.nodes[row2[j + 1]].keys = SubSeq(all, split_idx + 1, Len(all))
       /\ T2.nodes[row2[j]].next = row2[j + 1]
       /\ T2.nodes[row2[j + 1]].next
            = (IF j + 1 < Len(row2) THEN row2[j + 2] ELSE NULL)
       /\ \E n \in DOMAIN T2.nodes :
            /\ T2.nodes[n].type = "Internal"
            /\ \E i \in 1..Len(T2.nodes[n].keys) :
                 T2.nodes[n].keys[i] = all[split_idx + 1]
       /\ ~ \E n \in DOMAIN nodes :
            /\ nodes[n].type = "Internal"
            /\ \E i \in 1..Len(nodes[n].keys) :
                 nodes[n].keys[i] = all[split_idx + 1]

\* C36: an insert that brings a leaf to max_degree keys splits it at index
\* ceil((max_degree + 1) / 2): the leaf keeps the keys below that index, the
\* new right sibling takes the keys from that index upward and is linked
\* just right of the leaf, and the separator given to the parent is a copy
\* of the right sibling's first key.
LeafSplitsAtCeiling ==
    [][SplitStep => SplitResult((max_degree_ + 2) \div 2)]_vars

\* C36 as the code has it: the split index is (max_degree + 1) / 2 in
\* integer division, the floor, so that a leaf of four keys is split two and
\* two.
LeafSplitsAtFloor ==
    [][SplitStep => SplitResult((max_degree_ + 1) \div 2)]_vars

\* the first call on the tree of the keys 12, 13, 14 was the put of key 1
\* with value 2: the root leaf was split into the leaves 1, 12 and 13, 14
LeafSplitsAtFloorWitness ==
    /\ call.op = "put" /\ status = "Ok"
    /\ nOps = 1
    /\ LeafKeysRow(Tree) = << <<<<1>>, <<12>>>>, <<<<13>>, <<14>>>> >>
    /\ get(Tree, <<1>>) = <<2>>
    /\ nodes[root_].keys = << <<13>> >>

\* the records the WAL holds: those of the file followed by the writer's
\* buffer, as a reader returns them, and the status that ends the reading
WalRecords(file, buffer) == ReadAll(file \o buffer, 0)

\* C37: between two checkpoints the WAL, file then buffer, holds exactly the
\* records of the put, update and remove calls that returned Ok, one per
\* call, in invocation order, tagged PUT, UPDATE or DELETE as the call was;
\* a call that returned another status adds no record, and neither does
\* flush_wal.  Stated step by step: each such call extends the records by
\* its own or leaves them as they were.
LogFollowsCalls ==
    [][/\ alive /\ alive'
       /\ wal_writer_ = "open" /\ wal_writer_' = "open"
       /\ ckpt' = <<>>
       /\ call'.op \in Mutations \cup {"flush_wal"}
       => WalRecords(walFile', buffer_')
            = IF call'.op \in Mutations /\ status' = "Ok"
              THEN [records |-> Append(WalRecords(walFile, buffer_).records,
                                       [type |-> TypeOf(call'.op),
                                        key |-> call'.key,
                                        value |-> call'.value]),
                    st |-> "NotFound"]
              ELSE WalRecords(walFile, buffer_)]_vars

\* C37 for the calls that meet no failing system call, on a WAL that no
\* failed write has touched
LogFollowsUnfailingCalls ==
    [][/\ alive /\ alive'
       /\ wal_writer_ = "open" /\ wal_writer_' = "open"
       /\ ckpt' = <<>>
       /\ call'.op \in Mutations \cup {"flush_wal"}
       /\ call'.fault = NoFault
       /\ WalRecords(walFile, buffer_).st = "NotFound"
       => WalRecords(walFile', buffer_')
            = IF call'.op \in Mutations /\ status' = "Ok"
              THEN [records |-> Append(WalRecords(walFile, buffer_).records,
                                       [type |-> TypeOf(call'.op),
                                        key |-> call'.key,
                                        value |-> call'.value]),
                    st |-> "NotFound"]
              ELSE WalRecords(walFile, buffer_)]_vars

\* the bytes a put, update or remove that returned Ok appended to the WAL
CallBytes(c, st) ==
    IF c.op \in Mutations /\ st = "Ok"
    THEN record_bytes(TypeOf(c.op), c.key, c.value)
    ELSE <<>>

\* C38: the WAL file consists of whole records, each appended record once
\* and in append order, also when a flush fails after it wrote part of the
\* buffer and a later flush succeeds: no byte is written twice.  The bytes of
\* the WAL, file then buffer, are those of the records appended, whatever
\* flushes failed or succeeded on the way, and after a successful flush_wal
\* on fresh paths the file reads as whole records to its end.
NoByteWrittenTwice ==
    /\ [][/\ alive /\ alive'
          /\ wal_writer_ = "open" /\ wal_writer_' = "open"
          /\ ckpt' = <<>>
          /\ call'.op \in Mutations \cup {"flush_wal"}
          => walFile' \o buffer_'
               = walFile \o buffer_ \o CallBytes(call', status')]_vars
    /\ [](hist = "fresh" /\ call.op = "flush_wal" /\ status = "Ok"
          /\ wal_writer_ = "open"
          => ReadAll(walFile, 0).st = "NotFound")

\* C38 for the calls that meet no failing write
NoByteWrittenTwiceUnfailing ==
    [][/\ alive /\ alive'
       /\ wal_writer_ = "open" /\ wal_writer_' = "open"
       /\ ckpt' = <<>>
       /\ call'.op \in Mutations \cup {"flush_wal"}
       /\ call'.fault.kind # "wal_write"
       => walFile' \o buffer_'
            = walFile \o buffer_ \o CallBytes(call', status')]_vars

\* C39: after any sequence of public operations every leaf but the root
\* holds at least 2 and at most 3 keys.
LeafOccupancy ==
    \A n \in Leaves(Tree) :
        n # root_ => /\ Len(nodes[n].keys) >= 2
                     /\ Len(nodes[n].keys) <= 3

\* a remove has returned on a tree of several leaves, one of them holding
\* the maximum of 3 keys and another one the minimum of 2
LeafOccupancyWitness ==
    /\ call.op = "remove"
    /\ status = "Ok"
    /\ root_ \notin Leaves(Tree)
    /\ \E n \in Leaves(Tree) : Len(nodes[n].keys) = 3
    /\ \E n \in Leaves(Tree) : Len(nodes[n].keys) = 2

\* the statuses a call of the engine returns
Statuses == {"Ok", "NotFound", "Corruption", "IOError", "InvalidArgument"}

\* C40: recover_from_wal terminates for every finite WAL content, valid or
\* not.  Wherever in the file a read_next call starts, it returns a record
\* and a position at least one byte further on and still inside the file, or
\* end of log, or an error; so the loop reads fewer records than the file
\* has bytes, and the call returns Ok or an error status.
RecoveryTerminates ==
    /\ \A pos \in 0..Len(walFile) :
         LET r == read_next(walFile, pos)
         IN /\ r.st \in {"Ok", "NotFound", "Corruption"}
            /\ r.st = "Ok" => r.pos > pos /\ r.pos <= Len(walFile)
    /\ Len(ReadAll(walFile, 0).records) <= Len(walFile)
    /\ call.op = "recover" => status \in Statuses

\* a recovery has returned on a file of three records whose second one is
\* damaged, after reading the first
RecoveryTerminatesWitness ==
    /\ call.op = "recover"
    /\ status = "Corruption"
    /\ Len(written) = 3
    /\ Len(ReadAll(walFile, 0).records) = 1
    /\ read_next(walFile, 0).st = "Ok"
    /\ read_next(walFile, 0).pos < Len(walFile)

====
